---- MODULE Spec2Model ----
(***************************************************************************)
(* Model of the primitive registry client (lib/registry.js) and of the    *)
(* primitive resolver / installer (lib/primitives.js) of agonda-cli.      *)
(*                                                                         *)
(* Strings are sequences of one-character strings, so that the string     *)
(* conversions of the code (replace(/^v/, ''), trim, split('.'), Number,   *)
(* the parseTag regular expression, the tag template) are computed, not   *)
(* assumed.                                                                *)
(***************************************************************************)
EXTENDS Integers, Sequences, FiniteSets, TLC

(***************************************************************************)
(* Bounds                                                                  *)
(***************************************************************************)
\* page size of the tag listing (per_page=100 in the code, scaled down)
PerPage == 2

\* the most listing fetches that fail in a row within one operation
MaxNetFail == 1

\* the most primitives whose install meets a failure within one operation
MaxFaults == 1

\* the most resolver / installer operations in a row
MaxOps == 1

\* the most installs in a row where an install is run again
MaxRuns == 2

\* the largest version segment compared
MaxSegment == 10

(***************************************************************************)
(* Strings                                                                 *)
(***************************************************************************)
Digits == <<"0", "1", "2", "3", "4", "5", "6", "7", "8", "9">>

IsDigit(c) == \E i \in 1..Len(Digits) : Digits[i] = c

DigitVal(c) == (CHOOSE i \in 1..Len(Digits) : Digits[i] = c) - 1

IsSpace(c) == c \in {" ", "\n"}

\* s.slice(i - 1): the characters of s from position i (1-based) on
Drop(s, i) == IF i > Len(s) THEN <<>> ELSE SubSeq(s, i, Len(s))

\* String.prototype.trim
RECURSIVE TrimLeft(_)
TrimLeft(s) ==
    IF s # <<>> /\ IsSpace(Head(s)) THEN TrimLeft(Tail(s)) ELSE s

RECURSIVE TrimRight(_)
TrimRight(s) ==
    IF s # <<>> /\ IsSpace(s[Len(s)]) THEN TrimRight(SubSeq(s, 1, Len(s) - 1)) ELSE s

Trim(s) == TrimRight(TrimLeft(s))

\* pinnedVersion.replace(/^v/, '')
StripV(s) == IF s # <<>> /\ Head(s) = "v" THEN Tail(s) ELSE s

\* s.split('.')
RECURSIVE SplitDot(_, _, _)
SplitDot(s, i, cur) ==
    IF i > Len(s) THEN <<cur>>
    ELSE IF s[i] = "." THEN <<cur>> \o SplitDot(s, i + 1, <<>>)
    ELSE SplitDot(s, i + 1, Append(cur, s[i]))

Split(s) == SplitDot(s, 1, <<>>)

RECURSIVE DecimalValue(_)
DecimalValue(s) ==
    IF s = <<>> THEN 0
    ELSE 10 * DecimalValue(SubSeq(s, 1, Len(s) - 1)) + DigitVal(s[Len(s)])

AllDigits(s) == s # <<>> /\ \A i \in 1..Len(s) : IsDigit(s[i])

\* A JavaScript number: NaN, or an integer value
NaN == [nan |-> TRUE, val |-> 0]

Num(n) == [nan |-> FALSE, val |-> n]

\* Number(segment): surrounding white space is ignored, the empty string is
\* 0, an optionally signed run of decimal digits is its value, anything
\* else over the alphabet used here is NaN.
Number(seg) ==
    LET t == Trim(seg) IN
    IF t = <<>> THEN Num(0)
    ELSE IF AllDigits(t) THEN Num(DecimalValue(t))
    ELSE IF Head(t) = "-" /\ AllDigits(Tail(t)) THEN Num(0 - DecimalValue(Tail(t)))
    ELSE IF Head(t) = "+" /\ AllDigits(Tail(t)) THEN Num(DecimalValue(Tail(t)))
    ELSE NaN

\* (pa[i] || 0): a missing segment (undefined), NaN and 0 are all falsy
SegOrZero(pa, i) == IF i > Len(pa) \/ pa[i].nan THEN 0 ELSE pa[i].val

NumberParts(s) == [i \in 1..Len(Split(s)) |-> Number(Split(s)[i])]

RECURSIVE CompareFrom(_, _, _)
CompareFrom(pa, pb, i) ==
    IF i > 3 THEN 0
    ELSE IF SegOrZero(pa, i) # SegOrZero(pb, i)
         THEN SegOrZero(pa, i) - SegOrZero(pb, i)
         ELSE CompareFrom(pa, pb, i + 1)

\* a comparison that stops after the minor segment
compareMajorMinor(a, b) ==
    IF SegOrZero(NumberParts(a), 1) # SegOrZero(NumberParts(b), 1)
    THEN SegOrZero(NumberParts(a), 1) - SegOrZero(NumberParts(b), 1)
    ELSE SegOrZero(NumberParts(a), 2) - SegOrZero(NumberParts(b), 2)

compareSemver(a, b) == CompareFrom(NumberParts(a), NumberParts(b), 1)

(***************************************************************************)
(* Tags                                                                    *)
(***************************************************************************)
\* null where a string is expected: a sequence no string of one-character
\* elements can equal
Null == <<"null">>

NoTag == [ok |-> FALSE, primitive |-> Null, version |-> Null]

\* number of consecutive digits of s starting at position i
RECURSIVE DigitRun(_, _)
DigitRun(s, i) ==
    IF i <= Len(s) /\ IsDigit(s[i]) THEN 1 + DigitRun(s, i + 1) ELSE 0

\* r matches \d+\.\d+\.\d+.*
MatchesVersion(r) ==
    LET d1 == DigitRun(r, 1)
        d2 == DigitRun(r, d1 + 2)
        d3 == DigitRun(r, d1 + d2 + 3)
    IN  /\ d1 >= 1
        /\ d1 + 1 <= Len(r) /\ r[d1 + 1] = "."
        /\ d2 >= 1
        /\ d1 + d2 + 2 <= Len(r) /\ r[d1 + d2 + 2] = "."
        /\ d3 >= 1

\* positions i of the "/" at which /^(.+)\/v(\d+\.\d+\.\d+.*)$/ can split
TagSplits(s) ==
    {i \in 2..Len(s) :
        /\ s[i] = "/"
        /\ i + 1 <= Len(s) /\ s[i + 1] = "v"
        /\ MatchesVersion(Drop(s, i + 2))}

Max(S) == CHOOSE x \in S : \A y \in S : y <= x

\* the greedy (.+) takes the longest prefix that lets the rest match
parseTag(tagName) ==
    IF TagSplits(tagName) = {} THEN NoTag
    ELSE LET i == Max(TagSplits(tagName))
         IN  [ok |-> TRUE, primitive |-> SubSeq(tagName, 1, i - 1),
              version |-> Drop(tagName, i + 2)]

\* `${primitiveName}/v${version}`
TagRef(primitiveName, version) == primitiveName \o <<"/", "v">> \o version

(***************************************************************************)
(* Errors (utils/errors.js)                                                *)
(***************************************************************************)
NoErr == [kind |-> "none", code |-> "none", exitCode |-> 0]

NetworkError(code) == [kind |-> "Network", code |-> code, exitCode |-> 3]

NotFoundError(code) == [kind |-> "NotFound", code |-> code, exitCode |-> 4]

(***************************************************************************)
(* The registry client.  A registry state reg is                           *)
(*   cache   : the module-level tagCache ([present |-> FALSE] is null)     *)
(*   net     : the transport outcomes still to come: the failures of the   *)
(*             next tag-listing fetches, in order; once it is empty every  *)
(*             listing query succeeds                                      *)
(*   queries : the tag-listing queries issued so far by this operation     *)
(***************************************************************************)
NoCache == [present |-> FALSE, tags |-> <<>>]

Cached(tags) == [present |-> TRUE, tags |-> tags]

\* what execFileSync('gh', ['api', ...]) can do besides succeeding
TransportFailures == {"enoent", "http404", "other"}

\* the catch block of ghApi
ghApiError(failure) ==
    IF failure = "enoent" THEN NetworkError("gh_not_installed")
    ELSE IF failure = "http404" THEN NotFoundError("github_not_found")
    ELSE NetworkError("github_api_error")

\* tags?per_page=PerPage&page=page of the remote listing
Min(a, b) == IF a <= b THEN a ELSE b

PageOf(listing, page) ==
    SubSeq(listing, (page - 1) * PerPage + 1, Min(page * PerPage, Len(listing)))

\* batch.map((t) => ({ name: t.name, sha: t.commit.sha }))
MapBatch(batch) ==
    [i \in 1..Len(batch) |-> [name |-> batch[i].name, sha |-> batch[i].commit.sha]]

\* the while (true) loop of fetchTags; failAt is the page whose query
\* fails (0: none does)
RECURSIVE FetchPages(_, _, _, _)
FetchPages(listing, page, tags, failAt) ==
    IF page = failAt THEN [ok |-> FALSE, tags |-> tags, queries |-> page]
    ELSE LET batch == PageOf(listing, page) IN
         IF Len(batch) = 0 THEN [ok |-> TRUE, tags |-> tags, queries |-> page]
         ELSE IF Len(batch) < PerPage
              THEN [ok |-> TRUE, tags |-> tags \o MapBatch(batch), queries |-> page]
              ELSE FetchPages(listing, page + 1, tags \o MapBatch(batch), failAt)

\* the number of page queries a fetch of the listing issues when none fails
PagesOf(listing) == FetchPages(listing, 1, <<>>, 0).queries

\* a fetchTags that queries the registry on every call
CacheHitNever(cache) == FALSE

\* if (tagCache) return tagCache: an array, even an empty one, is truthy
CacheHit(cache) == cache.present

\* a fetchTags that caches the pages received before the failing one
CacheAfterFailureKeepsPages(cache, tags) == Cached(tags)

\* tagCache after a fetch that failed: the assignment tagCache = tags is
\* only reached when the loop ends normally
CacheAfterFailure(cache, tags) == cache

fetchTags(reg, listing) ==
    LET failAt == IF reg.net = <<>> THEN 0 ELSE Head(reg.net).page
        rest == IF reg.net = <<>> THEN <<>> ELSE Tail(reg.net)
        fetched(f) ==
            IF f.ok
            THEN [reg  |-> [reg EXCEPT !.cache = Cached(f.tags), !.net = rest,
                                       !.queries = @ + f.queries],
                  err  |-> NoErr,
                  tags |-> f.tags]
            ELSE [reg  |-> [reg EXCEPT !.cache = CacheAfterFailure(@, f.tags),
                                       !.net = rest, !.queries = @ + f.queries],
                  err  |-> ghApiError(Head(reg.net).failure),
                  tags |-> <<>>]
    IN  IF CacheHit(reg.cache)
        THEN [reg |-> reg, err |-> NoErr, tags |-> reg.cache.tags]
        ELSE fetched(FetchPages(listing, 1, <<>>, failAt))

\* Array.prototype.sort((a, b) => compareSemver(b, a)): a stable sort, so
\* versions that compare equal keep the order of the listing
RECURSIVE InsertDesc(_, _)
InsertDesc(sorted, x) ==
    IF sorted = <<>> THEN <<x>>
    ELSE IF compareSemver(x, Head(sorted)) > 0 THEN <<x>> \o sorted
    ELSE <<Head(sorted)>> \o InsertDesc(Tail(sorted), x)

\* a listing left in the order of the tags
SortAsListed(s) == s

RECURSIVE SortDesc(_)
SortDesc(s) ==
    IF s = <<>> THEN <<>>
    ELSE InsertDesc(SortDesc(SubSeq(s, 1, Len(s) - 1)), s[Len(s)])

\* tags.map(parseTag).filter(p => p && p.primitive === name).map(p => p.version)
RECURSIVE VersionsOf(_, _)
VersionsOf(tags, primitiveName) ==
    IF tags = <<>> THEN <<>>
    ELSE LET p == parseTag(Head(tags).name) IN
         (IF p.ok /\ p.primitive = primitiveName THEN <<p.version>> ELSE <<>>)
            \o VersionsOf(Tail(tags), primitiveName)

getAllVersions(reg, listing, primitiveName) ==
    LET versionsIn(f) ==
            [reg |-> f.reg, err |-> f.err,
             versions |-> IF f.err = NoErr
                          THEN SortDesc(VersionsOf(f.tags, primitiveName))
                          ELSE <<>>]
    IN  versionsIn(fetchTags(reg, listing))

getLatestVersion(reg, listing, primitiveName) ==
    LET first(g) ==
            [reg |-> g.reg, err |-> g.err,
             latest |-> IF Len(g.versions) > 0 THEN g.versions[1] ELSE Null]
    IN  first(getAllVersions(reg, listing, primitiveName))

\* UTF-16 code unit order of the characters used, for the default sort()
Alphabet == <<"\n", " ", "+", "-", ".", "/", "0", "1", "2", "3", "4", "5", "6",
              "7", "8", "9", "a", "b", "v">>

Code(c) == CHOOSE i \in 1..Len(Alphabet) : Alphabet[i] = c

RECURSIVE StrLess(_, _)
StrLess(a, b) ==
    IF b = <<>> THEN FALSE
    ELSE IF a = <<>> THEN TRUE
    ELSE IF Head(a) # Head(b) THEN Code(Head(a)) < Code(Head(b))
    ELSE StrLess(Tail(a), Tail(b))

RECURSIVE SortedNames(_)
SortedNames(S) ==
    IF S = {} THEN <<>>
    ELSE LET m == CHOOSE x \in S : \A y \in S \ {x} : StrLess(x, y)
         IN  <<m>> \o SortedNames(S \ {m})

listPrimitives(reg, listing) ==
    LET namesIn(f) ==
            LET names == {parseTag(f.tags[i].name).primitive :
                            i \in {j \in 1..Len(f.tags) : parseTag(f.tags[j].name).ok}}
            IN  [reg |-> f.reg, err |-> f.err,
                 names |-> IF f.err = NoErr THEN SortedNames(names) ELSE <<>>]
    IN  namesIn(fetchTags(reg, listing))

(***************************************************************************)
(* Directories.  An artifact directory is absent, or holds the subtree of  *)
(* one tag (complete, or cut short by a failed extraction) and possibly a  *)
(* .primitive-version marker file.                                         *)
(***************************************************************************)
NoDir == [exists |-> FALSE, tag |-> Null, complete |-> FALSE, marker |-> Null]

\* the subtree skills/<name>/ of the tarball of tagRef
Subtree(tagRef, complete) ==
    [exists |-> TRUE, tag |-> tagRef, complete |-> complete, marker |-> Null]

\* a download target: the directory itself and the <name>/ entry in it
NoTarget == [exists |-> FALSE, entry |-> NoDir]

\* what the `gh api .../tarball/... | tar xz` pipeline can do:
\*   ok        exit 0, the subtree is extracted
\*   nosubtree exit 0, nothing extracted
\*   error     non-zero exit or timeout before anything is extracted
\*   partial   non-zero exit or timeout after part of the subtree is extracted
DownloadOutcomes == {"ok", "nosubtree", "error", "partial"}

\* a test that accepts any tag of the same primitive
TagExistsAnyVersion(tags, tagRef) ==
    \E i \in 1..Len(tags) :
        /\ parseTag(tags[i].name).ok
        /\ parseTag(tags[i].name).primitive = parseTag(tagRef).primitive

\* tags.some((t) => t.name === tagRef)
TagExists(tags, tagRef) == \E i \in 1..Len(tags) : tags[i].name = tagRef

downloadPrimitive(reg, listing, primitiveName, version, target, outcome) ==
    LET tagRef == TagRef(primitiveName, version)
        made == [target EXCEPT !.exists = TRUE]
        from(f) ==
            IF f.err # NoErr
            THEN [reg |-> f.reg, err |-> f.err, target |-> target, downloads |-> 0]
            ELSE IF ~TagExists(f.tags, tagRef)
            THEN [reg |-> f.reg, err |-> NotFoundError("tag_not_found"),
                  target |-> target, downloads |-> 0]
            ELSE IF outcome = "ok"
            THEN [reg |-> f.reg, err |-> NoErr,
                  target |-> [made EXCEPT !.entry = Subtree(tagRef, TRUE)],
                  downloads |-> 1]
            ELSE IF outcome = "nosubtree"
            THEN [reg |-> f.reg, err |-> NoErr, target |-> made, downloads |-> 1]
            ELSE IF outcome = "partial"
            THEN [reg |-> f.reg, err |-> NetworkError("download_failed"),
                  target |-> [made EXCEPT !.entry = Subtree(tagRef, FALSE)],
                  downloads |-> 1]
            ELSE [reg |-> f.reg, err |-> NetworkError("download_failed"),
                  target |-> made, downloads |-> 1]
    IN  from(fetchTags(reg, listing))

(***************************************************************************)
(* The installer (lib/primitives.js)                                       *)
(***************************************************************************)
\* primitive names; the keys of a primitives object are visited in
\* PrimOrder (Object.keys / Object.entries order)
PrimA == <<"a">>

PrimB == <<"b">>

PrimOrder == <<PrimA, PrimB>>

Prims == {PrimOrder[i] : i \in 1..Len(PrimOrder)}

\* the pinned names of a primitives object, in order (Null: not a key)
RECURSIVE KeysFrom(_, _)
KeysFrom(pins, i) ==
    IF i > Len(PrimOrder) THEN <<>>
    ELSE (IF pins[PrimOrder[i]] # Null THEN <<PrimOrder[i]>> ELSE <<>>)
            \o KeysFrom(pins, i + 1)

Keys(pins) == KeysFrom(pins, 1)

\* a JavaScript string used as a condition: null and '' are falsy
Truthy(str) == str # Null /\ str # <<>>

\* detectInstalledVersion, behind the existsSync(skillDir) test of its caller
detectInstalledVersion(dir) ==
    IF dir.exists /\ dir.marker # Null THEN Trim(dir.marker) ELSE Null

\* what one install attempt can meet after the tag is found:
\* a download outcome, or a completed download followed by the failure
\* of one step of the swap (rmSync, mkdirSync, renameSync, writeFileSync)
SwapFailures == {"rm", "mkdir", "rename", "marker"}

Outcomes == DownloadOutcomes \cup SwapFailures

DownloadPart(outcome) == IF outcome \in SwapFailures THEN "ok" ELSE outcome

Action(name, action, version, from, reason) ==
    [name |-> name, action |-> action, version |-> version, from |-> from,
     reason |-> reason]

\* a bumped pin without the v
BumpedPinBare(latest) == latest

\* pins[primName] = `v${latest}`
BumpedPin(latest) == <<"v">> \o latest

\* the pin bump of installPrimitives (update): st is [reg, pins]
RECURSIVE BumpPins(_, _, _)
BumpPins(st, listing, names) ==
    IF names = <<>> THEN st
    ELSE LET bump(g) ==
                 [reg  |-> g.reg,
                  pins |-> IF g.err = NoErr /\ Truthy(g.latest)
                           THEN [st.pins EXCEPT ![Head(names)] = BumpedPin(g.latest)]
                           ELSE st.pins]
         IN  BumpPins(bump(getLatestVersion(st.reg, listing, Head(names))),
                      listing, Tail(names))

\* a marker holding the pin as workbench.json writes it
MarkerTextOfPin(cleanVersion) == <<"v">> \o cleanVersion

\* a marker written with a line end after the version
MarkerTextLine(cleanVersion) == cleanVersion \o <<"\n">>

\* writeFileSync(join(skillDir, '.primitive-version'), cleanVersion)
MarkerText(cleanVersion) == cleanVersion

\* a finally block that leaves the temporary directory where it is
TmpKept(tmpExists) == tmpExists

\* finally { if (existsSync(tmpDir)) rmSync(tmpDir, ...) }: whether the
\* temporary directory exists once the attempt has ended
TmpAfterFinally(tmpExists) == FALSE

\* the body of the for loop of installPrimitives for one primitive;
\* st is [reg, dirs, actions, writes, downloads, tmp]
InstallOne(st, listing, primName, pinnedVersion, dryRun, outcome) ==
    LET cleanVersion == StripV(pinnedVersion)
        skillDir == st.dirs[primName]
        installed == IF skillDir.exists THEN detectInstalledVersion(skillDir) ELSE Null
        push(a) == [st EXCEPT !.actions = Append(@, a)]
        failed(reason) == Action(primName, "failed", cleanVersion, Null, reason)
        replaced == IF skillDir.exists THEN {<<"skill", primName>>} ELSE {}
        \* the try block, d being what downloadPrimitive did
        swap(d) ==
            LET after(dir, a, w) ==
                    [reg |-> d.reg,
                     dirs |-> [st.dirs EXCEPT ![primName] = dir],
                     actions |-> Append(st.actions, a),
                     writes |-> st.writes \cup w
                                  \cup (IF d.target.exists THEN {<<"tmp", primName>>}
                                        ELSE {}),
                     downloads |-> st.downloads + d.downloads,
                     tmp |-> st.tmp \cup (IF TmpAfterFinally(d.target.exists)
                                          THEN {primName} ELSE {})]
                moved == [d.target.entry EXCEPT !.marker = Null]
            IN  IF d.err # NoErr
                THEN after(skillDir, failed(d.err.code), {})
                ELSE IF ~d.target.entry.exists
                THEN after(skillDir, failed("download produced no files"), {})
                ELSE IF skillDir.exists /\ outcome = "rm"
                THEN after([skillDir EXCEPT !.complete = FALSE], failed("rm"),
                           {<<"skill", primName>>})
                ELSE IF outcome = "mkdir"
                THEN after(NoDir, failed("mkdir"), replaced)
                ELSE IF outcome = "rename"
                THEN after(NoDir, failed("rename"), replaced)
                ELSE IF outcome = "marker"
                THEN after(moved, failed("marker"), {<<"skill", primName>>})
                ELSE after([moved EXCEPT !.marker = MarkerText(cleanVersion)],
                           Action(primName,
                                  IF Truthy(installed) THEN "updated" ELSE "installed",
                                  cleanVersion, installed, "none"),
                           {<<"skill", primName>>, <<"marker", primName>>})
    IN  IF installed = cleanVersion
        THEN push(Action(primName, "skipped", cleanVersion, Null, "already installed"))
        ELSE IF dryRun
        THEN push(Action(primName,
                         IF Truthy(installed) THEN "would_update" ELSE "would_install",
                         cleanVersion, installed, "none"))
        ELSE swap(downloadPrimitive(st.reg, listing, primName, cleanVersion, NoTarget,
                                    DownloadPart(outcome)))

RECURSIVE InstallLoop(_, _, _, _, _, _)
InstallLoop(st, listing, pins, names, dryRun, fx) ==
    IF names = <<>> THEN st
    ELSE InstallLoop(InstallOne(st, listing, Head(names), pins[Head(names)], dryRun,
                                fx[Head(names)]),
                     listing, pins, Tail(names), dryRun, fx)

\* a write-back that ignores dryRun
WriteBackOnDryRun(update, dryRun) == update

\* a write-back after every run that is not a dry run
WriteBackAlways(update, dryRun) == ~dryRun

\* if (update && !dryRun): the pins are written back to workbench.json
WriteBack(update, dryRun) == update /\ ~dryRun

\* a workbench on disk: the workbench.json file (its primitives object and
\* whether its text is what JSON.stringify(_, null, 2) + '\n' writes) and
\* the skills/<name> directories
installPrimitives(reg, listing, config, wb, update, dryRun, fx) ==
    LET writeBack == WriteBack(update, dryRun)
        result(st, pins) ==
            [reg |-> st.reg,
             wb |-> [file |-> IF writeBack THEN [primitives |-> pins, pretty |-> TRUE]
                              ELSE wb.file,
                     dirs |-> st.dirs],
             actions |-> st.actions,
             writes |-> st.writes \cup (IF writeBack THEN {<<"manifest">>} ELSE {}),
             downloads |-> st.downloads,
             tmp |-> st.tmp,
             pins |-> pins]
        install(bumped) ==
            result(InstallLoop([reg |-> bumped.reg, dirs |-> wb.dirs, actions |-> <<>>,
                                writes |-> {}, downloads |-> 0, tmp |-> {}],
                               listing, bumped.pins, Keys(bumped.pins), dryRun, fx),
                   bumped.pins)
    IN  IF Keys(config) = <<>>
        THEN [reg |-> reg, wb |-> wb, actions |-> <<>>, writes |-> {}, downloads |-> 0,
              tmp |-> {}, pins |-> config]
        ELSE install(IF update
                     THEN BumpPins([reg |-> reg, pins |-> config], listing, Keys(config))
                     ELSE [reg |-> reg, pins |-> config])

(***************************************************************************)
(* The resolver (lib/primitives.js)                                        *)
(***************************************************************************)
Unknown == <<"unknown">>

\* a classification that wants the pin ahead of the latest
StatusStrict(cmp) == IF cmp > 0 THEN "CURRENT" ELSE "BEHIND"

\* status = cmp >= 0 ? 'CURRENT' : 'BEHIND'
Status(cmp) == IF cmp >= 0 THEN "CURRENT" ELSE "BEHIND"

\* the body of the for loop of checkWorkbenchPrimitives; st is [reg, primitives]
CheckOne(st, listing, primName, pinnedVersion) ==
    LET cleanPinned == StripV(pinnedVersion)
        entry(g) ==
            LET latest == IF g.err = NoErr THEN g.latest ELSE Null
                status == IF g.err = NoErr /\ Truthy(latest)
                          THEN Status(compareSemver(cleanPinned, latest))
                          ELSE "UNKNOWN"
            IN  [reg |-> g.reg,
                 primitives |-> Append(st.primitives,
                                       [name |-> primName, pinned |-> cleanPinned,
                                        latest |-> IF Truthy(latest) THEN latest
                                                   ELSE Unknown,
                                        status |-> status])]
    IN  entry(getLatestVersion(st.reg, listing, primName))

\* the loop, were the query not inside a try block: the first failure ends it
RECURSIVE CheckLoopUnguarded(_, _, _, _)
CheckLoopUnguarded(st, listing, pinned, names) ==
    IF names = <<>> THEN st
    ELSE LET next(g) ==
                 IF g.err # NoErr THEN [st EXCEPT !.reg = g.reg]
                 ELSE CheckLoopUnguarded(CheckOne(st, listing, Head(names),
                                                  pinned[Head(names)]),
                                         listing, pinned, Tail(names))
         IN  next(getLatestVersion(st.reg, listing, Head(names)))

\* for (const [primName, pinnedVersion] of Object.entries(pinned))
RECURSIVE CheckLoop(_, _, _, _)
CheckLoop(st, listing, pinned, names) ==
    IF names = <<>> THEN st
    ELSE CheckLoop(CheckOne(st, listing, Head(names), pinned[Head(names)]),
                   listing, pinned, Tail(names))

checkWorkbenchPrimitives(reg, listing, config) ==
    CheckLoop([reg |-> reg, primitives |-> <<>>], listing, config, Keys(config))

(***************************************************************************)
(* updatePrimitive (lib/primitives.js)                                     *)
(***************************************************************************)
Result(w, action, name, from, to) ==
    [workbench |-> w, action |-> action, name |-> name, from |-> from, to |-> to]

\* the action updatePrimitive reports from the install result:
\* installResult.actions.find((a) => a.name === primitiveName)?.action || 'updated'
FindAction(actions, primitiveName) ==
    IF \E i \in 1..Len(actions) : actions[i].name = primitiveName
    THEN actions[CHOOSE i \in 1..Len(actions) :
                    /\ actions[i].name = primitiveName
                    /\ \A j \in 1..(i - 1) : actions[j].name # primitiveName].action
    ELSE "updated"

\* the body of the for loop of updatePrimitive for the workbench w;
\* st is [reg, disk, results, writes, downloads]
UpdateOne(st, listing, primitiveName, latest, w, dryRun, fx) ==
    LET pins == st.disk[w].file.primitives
        currentPin == StripV(pins[primitiveName])
        push(action) ==
            [st EXCEPT !.results = Append(@, Result(w, action, primitiveName,
                                                    currentPin, latest))]
        wbJson == [primitives |-> [pins EXCEPT ![primitiveName] = <<"v">> \o latest],
                   pretty |-> TRUE]
        reinstalled(inst) ==
            [reg |-> inst.reg,
             disk |-> [st.disk EXCEPT ![w] = inst.wb],
             results |-> Append(st.results,
                                Result(w, FindAction(inst.actions, primitiveName),
                                       primitiveName, currentPin, latest)),
             writes |-> st.writes \cup {<<w, "manifest">>}
                           \cup {<<w>> \o x : x \in inst.writes},
             downloads |-> st.downloads + inst.downloads,
             tmp |-> st.tmp \cup inst.tmp]
    IN  IF pins[primitiveName] = Null THEN st
        ELSE IF compareSemver(currentPin, latest) >= 0 THEN push("current")
        ELSE IF dryRun THEN push("would_update")
        ELSE reinstalled(installPrimitives(st.reg, listing, wbJson.primitives,
                                           [st.disk[w] EXCEPT !.file = wbJson],
                                           FALSE, FALSE, fx))

RECURSIVE UpdateLoop(_, _, _, _, _, _, _)
UpdateLoop(st, listing, primitiveName, latest, wbs, dryRun, fx) ==
    IF wbs = <<>> THEN st
    ELSE UpdateLoop(UpdateOne(st, listing, primitiveName, latest, Head(wbs), dryRun, fx),
                    listing, primitiveName, latest, Tail(wbs), dryRun, fx)

\* an update that goes on without a latest version
NotFoundNever(latest) == FALSE

\* if (!latest): the registry has no version of the primitive
NotFound(latest) == ~Truthy(latest)

updatePrimitive(reg, listing, primitiveName, wbs, disk, dryRun, fx) ==
    LET resolved(g) ==
            LET st0 == [reg |-> g.reg, disk |-> disk, results |-> <<>>, writes |-> {},
                        downloads |-> 0, tmp |-> {}]
            IN  IF g.err # NoErr
                THEN st0 @@ [err |-> g.err, error |-> "none", latest |-> Null]
                ELSE IF NotFound(g.latest)
                THEN st0 @@ [err |-> NoErr, error |-> "not_found", latest |-> Null]
                ELSE UpdateLoop(st0, listing, primitiveName, g.latest, wbs, dryRun, fx)
                        @@ [err |-> NoErr, error |-> "none", latest |-> g.latest]
    IN  resolved(getLatestVersion(reg, listing, primitiveName))

(***************************************************************************)
(* The state                                                               *)
(***************************************************************************)
VARIABLES
    tagCache,   \* the module-level tagCache of the registry client
    remote,     \* the tag listing of the skills repository on GitHub
    disk,       \* every workbench: its workbench.json and its skills/ directories
    step,       \* the number of resolver / installer operations so far
    run         \* the last operation: its arguments, what it returned, what it
                \* did, and what the state was when it started

vars == <<tagCache, remote, disk, step, run>>

Workbenches == {"w1", "w2"}

\* version strings and pins
V100 == <<"1", ".", "0", ".", "0">>

V110 == <<"1", ".", "1", ".", "0">>

V200 == <<"2", ".", "0", ".", "0">>

V200b == <<"2", ".", "0", ".", "0", "-", "b">>

Pin(version) == <<"v">> \o version

RemoteTag(name, sha) == [name |-> name, commit |-> [sha |-> sha]]

\* the listings the remote repository may hold
FullListing ==
    <<RemoteTag(TagRef(PrimA, V100), "s1"), RemoteTag(TagRef(PrimA, V200), "s2"),
      RemoteTag(TagRef(PrimB, V100), "s3")>>

ShortListing == <<RemoteTag(TagRef(PrimA, V100), "s1"), RemoteTag(Pin(V200), "s4")>>

Listings == {FullListing, ShortListing, <<>>}

\* the listings a test seeds the cache with
SeedListings ==
    { <<[name |-> TagRef(PrimB, V200b), sha |-> "f1"],
        [name |-> TagRef(PrimA, V100), sha |-> "f2"]>> }

\* a skills/<name> directory put there before any install, with a marker
\* file ending in a newline
Preinstalled ==
    [exists |-> TRUE, tag |-> <<"local">>, complete |-> TRUE,
     marker |-> V100 \o <<"\n">>]

Workbench(primitives, dirs) ==
    [file |-> [primitives |-> primitives, pretty |-> FALSE], dirs |-> dirs]

NoPins == [p \in Prims |-> Null]

NoDirs == [p \in Prims |-> NoDir]

\* a skills/<name> directory put there by hand, without a marker file
Unmarked == [exists |-> TRUE, tag |-> <<"local">>, complete |-> TRUE, marker |-> Null]

\* the second workbench pins one primitive, over a directory put there by hand
SecondWorkbench ==
    Workbench([NoPins EXCEPT ![PrimA] = Pin(V100)], [NoDirs EXCEPT ![PrimA] = Unmarked])

\* a skills/<name> directory whose marker file exists and holds no version
\* (the file was created and the version never reached it)
EmptyMarker ==
    [exists |-> TRUE, tag |-> <<"local">>, complete |-> TRUE, marker |-> <<"\n">>]

InitDisks ==
    {[w \in Workbenches |->
        IF w = "w1"
        THEN Workbench([NoPins EXCEPT ![PrimA] = a, ![PrimB] = b],
                       [NoDirs EXCEPT ![PrimA] = d])
        ELSE SecondWorkbench] :
      a \in {Null, Pin(V100), Pin(V200)}, b \in {Null, Pin(V100)},
      d \in {NoDir, Preinstalled, EmptyMarker}}

\* what an operation leaves for the next one to be compared with
Summary(r) ==
    [op |-> r.op, w |-> r.w, update |-> r.update, dryRun |-> r.dryRun, pins |-> r.pins,
     failed |-> \E i \in 1..Len(r.actions) : r.actions[i].action = "failed"]

\* the record of an operation; every operation fills in its own fields
Blank ==
    [op |-> "none", w |-> "-", name |-> Null, version |-> Null,
     update |-> FALSE, dryRun |-> FALSE, wbs |-> <<>>,
     err |-> NoErr, error |-> "none", versions |-> <<>>, latest |-> Null,
     primitives |-> <<>>, actions |-> <<>>, results |-> <<>>,
     pins |-> NoPins, writes |-> {}, queries |-> 0, downloads |-> 0,
     target |-> NoTarget, plan |-> <<>>,
     args |-> <<>>, triples |-> <<>>, suffixes |-> <<>>, cmp |-> <<>>,
     tmp |-> {}, pc |-> "none", settings |-> <<>>, scopeOf |-> <<>>, all |-> FALSE,
     dir |-> <<>>, claude |-> "-", errors |-> <<>>, warnings |-> <<>>, calls |-> {},
     dirAfter |-> <<>>, manifest |-> <<>>, workbenches |-> <<>>, dirsAfter |-> <<>>,
     dirs |-> <<>>, exit |-> 0, cwd |-> <<>>, checked |-> <<>>, validated |-> <<>>,
     summary |-> [total |-> 0, current |-> 0, behind |-> 0, unknown |-> 0],
     before |-> [w \in Workbenches |-> Workbench(NoPins, NoDirs)],
     cacheBefore |-> NoCache,
     prev |-> [op |-> "none", w |-> "-", update |-> FALSE, dryRun |-> FALSE,
               pins |-> NoPins, failed |-> FALSE]]

\* r, as the record of the operation that follows the one recorded in run
Record(r) ==
    (r @@ [before |-> disk, cacheBefore |-> tagCache, prev |-> Summary(run)]) @@ Blank

Init ==
    /\ tagCache = NoCache
    /\ remote \in {FullListing, ShortListing}
    /\ disk \in InitDisks
    /\ step = 0
    /\ run = Blank

\* the failures the next listing fetches of one operation meet, in order
RECURSIVE PlansOfLen(_, _)
PlansOfLen(n, pages) ==
    IF n = 0 THEN {<<>>}
    ELSE {<<[failure |-> f, page |-> k]>> \o rest :
            f \in TransportFailures, k \in pages, rest \in PlansOfLen(n - 1, pages)}

\* for the registry operations a fetch may fail at any of its pages
NetPlans == UNION {PlansOfLen(n, 1..PagesOf(remote)) : n \in 0..MaxNetFail}

\* for the resolver and the installer it fails at its first page
FirstPagePlans == UNION {PlansOfLen(n, {1}) : n \in 0..MaxNetFail}

\* the registry state an operation starts from
Reg(net) == [cache |-> tagCache, net |-> net, queries |-> 0]

\* nothing is fetched while the cache is populated
Fits(net) == tagCache.present => net = <<>>

\* what the install attempts of one operation meet: at most MaxFaults
\* primitives meet something else than a complete download and swap
Faults ==
    {fx \in [Prims -> Outcomes] : Cardinality({p \in Prims : fx[p] # "ok"}) <= MaxFaults}

(***************************************************************************)
(* Operations of the registry client                                       *)
(***************************************************************************)
GetAllVersions(primitiveName, net) ==
    /\ Fits(net)
    /\ \E g \in {getAllVersions(Reg(net), remote, primitiveName)} :
        /\ g.reg.net = <<>>
        /\ tagCache' = g.reg.cache
        /\ run' = Record([op |-> "getAllVersions", name |-> primitiveName, err |-> g.err,
                          versions |-> g.versions, queries |-> g.reg.queries, plan |-> net])
    /\ UNCHANGED <<remote, disk, step>>

GetLatestVersion(primitiveName, net) ==
    /\ Fits(net)
    /\ \E g \in {getLatestVersion(Reg(net), remote, primitiveName)} :
        /\ g.reg.net = <<>>
        /\ tagCache' = g.reg.cache
        /\ run' = Record([op |-> "getLatestVersion", name |-> primitiveName, err |-> g.err,
                          latest |-> g.latest, queries |-> g.reg.queries, plan |-> net])
    /\ UNCHANGED <<remote, disk, step>>

ListPrimitives(net) ==
    /\ Fits(net)
    /\ \E g \in {listPrimitives(Reg(net), remote)} :
        /\ g.reg.net = <<>>
        /\ tagCache' = g.reg.cache
        /\ run' = Record([op |-> "listPrimitives", err |-> g.err, versions |-> g.names,
                          queries |-> g.reg.queries, plan |-> net])
    /\ UNCHANGED <<remote, disk, step>>

DownloadVersions == {V100, V110}

\* the target directory of a direct call does not exist yet
DownloadPrimitive(primitiveName, version, outcome, net) ==
    /\ Fits(net)
    /\ \E d \in {downloadPrimitive(Reg(net), remote, primitiveName, version, NoTarget,
                                   outcome)} :
        /\ d.reg.net = <<>>
        /\ tagCache' = d.reg.cache
        /\ run' = Record([op |-> "downloadPrimitive", name |-> primitiveName,
                          version |-> version, err |-> d.err, queries |-> d.reg.queries,
                          downloads |-> d.downloads, target |-> d.target, plan |-> net])
    /\ UNCHANGED <<remote, disk, step>>

SeedCache(tags) ==
    /\ tagCache' = Cached(tags)
    /\ run' = Record([op |-> "seedCache"])
    /\ UNCHANGED <<remote, disk, step>>

ClearCache ==
    /\ tagCache' = NoCache
    /\ run' = Record([op |-> "clearCache"])
    /\ UNCHANGED <<remote, disk, step>>

RegistryNext ==
    \/ \E n \in Prims, net \in NetPlans : GetAllVersions(n, net)
    \/ \E n \in Prims, net \in NetPlans : GetLatestVersion(n, net)
    \/ \E net \in NetPlans : ListPrimitives(net)
    \/ \E n \in Prims, v \in DownloadVersions, o \in DownloadOutcomes, net \in NetPlans :
          DownloadPrimitive(n, v, o, net)
    \/ \E tags \in SeedListings : SeedCache(tags)
    \/ ClearCache

RegistryInit ==
    /\ tagCache = NoCache
    /\ remote \in Listings
    /\ disk = [w \in Workbenches |-> SecondWorkbench]
    /\ step = 0
    /\ run = Blank

RegistrySpec == RegistryInit /\ [][RegistryNext]_vars

(***************************************************************************)
(* Scope resolution and the repository-wide check (lib/primitives.js,      *)
(* lib/validate.js).  Workbench discovery (lib/context.js) is modelled     *)
(* from its description and its tests: a workbench is a directory of the   *)
(* repository holding a workbench.json, the context of a directory is the  *)
(* workbench it lies in, if any.                                           *)
(***************************************************************************)
\* the workbenches of the repository, in the order of discovery
WorkbenchOrder == <<"w1", "w2">>

\* directories of the repository, as paths from its root: the root, the
\* workbench directories, a directory inside a workbench, one outside all
Cwds == {<<>>, <<"w1">>, <<"w1", "skills">>, <<"w2">>, <<"docs">>}

NoContext == "-"

\* findAllWorkbenches(cwd): every workbench of the repository
findAllWorkbenches(cwd) == WorkbenchOrder

\* findWorkbenchContext(cwd): the workbench whose directory is cwd or an
\* ancestor of cwd, null when there is none
findWorkbenchContext(cwd) ==
    IF \E w \in Workbenches : cwd # <<>> /\ Head(cwd) = w
    THEN Head(cwd)
    ELSE NoContext

\* a scope without the fallback: no context, no workbench
TargetsNoFallback(all, cwd) ==
    IF all THEN findAllWorkbenches(cwd)
    ELSE IF findWorkbenchContext(cwd) # NoContext THEN <<findWorkbenchContext(cwd)>>
    ELSE <<>>

\* if (all) ... else { ctx = findWorkbenchContext(cwd); if (ctx) ... else ... }
Targets(all, cwd) ==
    IF all THEN findAllWorkbenches(cwd)
    ELSE IF findWorkbenchContext(cwd) # NoContext THEN <<findWorkbenchContext(cwd)>>
    ELSE findAllWorkbenches(cwd)

\* a filter that keeps every workbench
HasPrimitivesAlways(config) == TRUE

\* wb.config.primitives && Object.keys(wb.config.primitives).length > 0
HasPrimitives(config) == Keys(config) # <<>>

\* workbenches.filter(...)
RECURSIVE WithPrimitives(_, _)
WithPrimitives(wbs, d) ==
    IF wbs = <<>> THEN <<>>
    ELSE (IF HasPrimitives(d[Head(wbs)].file.primitives) THEN <<Head(wbs)>> ELSE <<>>)
            \o WithPrimitives(Tail(wbs), d)

\* withPrimitives.map((wb) => checkWorkbenchPrimitives(wb)); st is [reg, results]
RECURSIVE CheckEach(_, _, _, _)
CheckEach(st, listing, wbs, d) ==
    IF wbs = <<>> THEN st
    ELSE LET checked(c) ==
                 [reg |-> c.reg,
                  results |-> Append(st.results, [workbench |-> Head(wbs),
                                                  primitives |-> c.primitives])]
         IN  CheckEach(checked(checkWorkbenchPrimitives(st.reg, listing,
                                                        d[Head(wbs)].file.primitives)),
                       listing, Tail(wbs), d)

\* the statuses of all entries of all results, in order
RECURSIVE Statuses(_)
Statuses(results) ==
    IF results = <<>> THEN <<>>
    ELSE [i \in 1..Len(Head(results).primitives) |-> Head(results).primitives[i].status]
            \o Statuses(Tail(results))

\* the summary loop: total++ and one of current++, behind++, unknown++
RECURSIVE Summarize(_, _)
Summarize(sum, statuses) ==
    IF statuses = <<>> THEN sum
    ELSE Summarize([total   |-> sum.total + 1,
                    current |-> sum.current + (IF Head(statuses) = "CURRENT" THEN 1 ELSE 0),
                    behind  |-> sum.behind + (IF Head(statuses) = "CURRENT" THEN 0
                                              ELSE IF Head(statuses) = "BEHIND" THEN 1
                                              ELSE 0),
                    unknown |-> sum.unknown + (IF Head(statuses) \in {"CURRENT", "BEHIND"}
                                               THEN 0 ELSE 1)],
                   Tail(statuses))

NoSummary == [total |-> 0, current |-> 0, behind |-> 0, unknown |-> 0]

checkAllPrimitives(reg, listing, all, cwd, d) ==
    LET summed(st) ==
            [reg |-> st.reg, results |-> st.results,
             summary |-> Summarize(NoSummary, Statuses(st.results))]
    IN  summed(CheckEach([reg |-> reg, results |-> <<>>], listing,
                         WithPrimitives(Targets(all, cwd), d), d))

\* validateAll, as far as the workbenches it validates: one result per
\* target, in order, each under the path of its workbench
validateAll(all, cwd) ==
    [i \in 1..Len(Targets(all, cwd)) |-> [path |-> Targets(all, cwd)[i]]]

(***************************************************************************)
(* Operations of the resolver and the installer.  The workbench info an    *)
(* operation is given is the one workbench discovery builds: its config is *)
(* the parsed workbench.json of the workbench.                             *)
(***************************************************************************)
CheckWorkbenchPrimitives(w, net) ==
    /\ step < MaxOps
    /\ Fits(net)
    /\ \E c \in {checkWorkbenchPrimitives(Reg(net), remote, disk[w].file.primitives)} :
        /\ c.reg.net = <<>>
        /\ tagCache' = c.reg.cache
        /\ step' = step + 1
        /\ run' = Record([op |-> "checkWorkbenchPrimitives", w |-> w,
                          pins |-> disk[w].file.primitives,
                          primitives |-> c.primitives, queries |-> c.reg.queries,
                          plan |-> net])
    /\ UNCHANGED <<remote, disk>>

CheckAllPrimitives(all, cwd, net) ==
    /\ step < MaxOps
    /\ Fits(net)
    /\ \E c \in {checkAllPrimitives(Reg(net), remote, all, cwd, disk)} :
        /\ c.reg.net = <<>>
        /\ tagCache' = c.reg.cache
        /\ step' = step + 1
        /\ run' = Record([op |-> "checkAllPrimitives", all |-> all, cwd |-> cwd,
                          checked |-> c.results, summary |-> c.summary,
                          queries |-> c.reg.queries, plan |-> net])
    /\ UNCHANGED <<remote, disk>>

ValidateAll(all, cwd) ==
    /\ step < MaxOps
    /\ step' = step + 1
    /\ run' = Record([op |-> "validateAll", all |-> all, cwd |-> cwd,
                      validated |-> validateAll(all, cwd)])
    /\ UNCHANGED <<tagCache, remote, disk>>

AllOk == [p \in Prims |-> "ok"]

Install(w, update, dryRun, fx, net) ==
    /\ Fits(net)
    /\ dryRun => fx = AllOk
    /\ \A p \in Prims : disk[w].file.primitives[p] = Null => fx[p] = "ok"
    /\ \E i \in {installPrimitives(Reg(net), remote, disk[w].file.primitives, disk[w],
                                    update, dryRun, fx)} :
        /\ i.reg.net = <<>>
        /\ tagCache' = i.reg.cache
        /\ disk' = [disk EXCEPT ![w] = i.wb]
        /\ step' = step + 1
        /\ run' = Record([op |-> "installPrimitives", w |-> w, update |-> update,
                          dryRun |-> dryRun, actions |-> i.actions, pins |-> i.pins,
                          writes |-> i.writes, queries |-> i.reg.queries,
                          downloads |-> i.downloads, tmp |-> i.tmp, plan |-> net])
    /\ UNCHANGED remote

InstallPrimitives(w, update, dryRun, fx, net) ==
    /\ step < MaxOps
    /\ Install(w, update, dryRun, fx, net)

\* the workbench lists the update command resolves: one workbench, or all
WorkbenchLists == {<<"w1">>, <<"w2">>, <<"w1", "w2">>}

UpdatePrimitive(primitiveName, wbs, dryRun, fx, net) ==
    /\ step < MaxOps
    /\ Fits(net)
    /\ dryRun => fx = AllOk
    /\ \E u \in {updatePrimitive(Reg(net), remote, primitiveName, wbs, disk, dryRun, fx)} :
        /\ u.reg.net = <<>>
        /\ tagCache' = u.reg.cache
        /\ disk' = u.disk
        /\ step' = step + 1
        /\ run' = Record([op |-> "updatePrimitive", name |-> primitiveName, wbs |-> wbs,
                          dryRun |-> dryRun, err |-> u.err, error |-> u.error,
                          latest |-> u.latest, results |-> u.results, writes |-> u.writes,
                          queries |-> u.reg.queries, downloads |-> u.downloads,
                          tmp |-> u.tmp, plan |-> net])
    /\ UNCHANGED remote

Next ==
    \/ \E w \in Workbenches, net \in FirstPagePlans : CheckWorkbenchPrimitives(w, net)
    \/ \E all \in BOOLEAN, cwd \in Cwds, net \in FirstPagePlans :
          CheckAllPrimitives(all, cwd, net)
    \/ \E all \in BOOLEAN, cwd \in Cwds : ValidateAll(all, cwd)
    \/ \E w \in Workbenches, update \in BOOLEAN, dryRun \in BOOLEAN,
          fx \in Faults, net \in FirstPagePlans :
          InstallPrimitives(w, update, dryRun, fx, net)
    \/ \E n \in Prims, wbs \in WorkbenchLists, dryRun \in BOOLEAN,
          fx \in Faults, net \in FirstPagePlans :
          UpdatePrimitive(n, wbs, dryRun, fx, net)

Spec == Init /\ [][Next]_vars

(***************************************************************************)
(* Installs run again: installPrimitives called up to MaxRuns times in a   *)
(* row by one process, on workbenches that pin the first primitive.        *)
(***************************************************************************)
InstallAgain(w, update, dryRun, fx, net) ==
    /\ step < MaxRuns
    /\ Install(w, update, dryRun, fx, net)

RerunInit ==
    /\ Init
    /\ remote = FullListing
    /\ disk["w1"].file.primitives[PrimA] # Null

\* the listing fetches of these runs fail in one way
RerunPlans == {net \in FirstPagePlans : \A k \in 1..Len(net) : net[k].failure = "other"}

RerunNext ==
    \E w \in Workbenches, update \in BOOLEAN, dryRun \in BOOLEAN,
       fx \in Faults, net \in RerunPlans :
       InstallAgain(w, update, dryRun, fx, net)

RerunSpec == RerunInit /\ [][RerunNext]_vars

(***************************************************************************)
(* One install attempt of installPrimitives, statement by statement: the   *)
(* body of the loop for one primitive that is neither skipped nor a dry    *)
(* run. run.pc is the statement to execute next, run.target the temporary  *)
(* directory; the process may be interrupted between any two statements,   *)
(* and rmSync of a directory removes its entries one after another.        *)
(***************************************************************************)
\* the artifact directory the attempt works on
SkillDir == disk[run.w].dirs[run.name]

AttemptAt(pcs) == run.op = "attempt" /\ run.pc \in pcs

\* actions.push({... action: 'failed' ...}) of the catch block or of the
\* no-files test, then on to the finally block
AttemptFailed(reason) ==
    [run EXCEPT !.pc = "finally",
                !.actions = <<Action(run.name, "failed", run.version, Null, reason)>>]

AttemptBegin(w, primName) ==
    /\ run.op = "none"
    /\ disk[w].file.primitives[primName] # Null
    /\ LET cleanVersion == StripV(disk[w].file.primitives[primName])
           skillDir == disk[w].dirs[primName]
           installed == IF skillDir.exists THEN detectInstalledVersion(skillDir) ELSE Null
       IN  /\ installed # cleanVersion
           /\ run' = Record([op |-> "attempt", w |-> w, name |-> primName,
                             version |-> cleanVersion, latest |-> installed,
                             pc |-> "download"])
    /\ step' = step + 1
    /\ UNCHANGED <<tagCache, remote, disk>>

\* the tar of downloadPrimitive has extracted part of the subtree
AttemptExtracting ==
    /\ AttemptAt({"download"})
    /\ \E d \in {downloadPrimitive(Reg(<<>>), remote, run.name, run.version, NoTarget,
                                    "partial")} :
          /\ d.target.entry.exists
          /\ tagCache' = d.reg.cache
          /\ run' = [run EXCEPT !.pc = "extracting", !.target = d.target]
    /\ UNCHANGED <<remote, disk, step>>

\* downloadPrimitive returns or throws
AttemptDownload(outcome) ==
    /\ AttemptAt({"download", "extracting"})
    /\ \E d \in {downloadPrimitive(Reg(<<>>), remote, run.name, run.version, NoTarget,
                                    outcome)} :
          /\ tagCache' = d.reg.cache
          /\ run' = IF d.err # NoErr
                    THEN [AttemptFailed(d.err.code) EXCEPT !.target = d.target]
                    ELSE [run EXCEPT !.pc = "check", !.target = d.target,
                                     !.downloads = 1]
    /\ UNCHANGED <<remote, disk, step>>

\* if (!existsSync(downloadedDir)) { failed; continue }
AttemptCheck ==
    /\ AttemptAt({"check"})
    /\ run' = IF ~run.target.entry.exists
              THEN AttemptFailed("download produced no files")
              ELSE [run EXCEPT !.pc = "rm"]
    /\ UNCHANGED <<tagCache, remote, disk, step>>

\* if (existsSync(skillDir)) rmSync(skillDir, ...): the first entries go
AttemptRmBegin ==
    /\ AttemptAt({"rm"})
    /\ IF SkillDir.exists
       THEN /\ disk' = [disk EXCEPT ![run.w].dirs[run.name].complete = FALSE]
            /\ run' = [run EXCEPT !.pc = "removing"]
       ELSE /\ disk' = disk
            /\ run' = [run EXCEPT !.pc = "mkdir"]
    /\ UNCHANGED <<tagCache, remote, step>>

\* rmSync ends: the directory itself is removed
AttemptRmEnd ==
    /\ AttemptAt({"removing"})
    /\ disk' = [disk EXCEPT ![run.w].dirs[run.name] = NoDir]
    /\ run' = [run EXCEPT !.pc = "mkdir"]
    /\ UNCHANGED <<tagCache, remote, step>>

\* mkdirSync(dirname(skillDir), { recursive: true })
AttemptMkdir ==
    /\ AttemptAt({"mkdir"})
    /\ run' = [run EXCEPT !.pc = "rename"]
    /\ UNCHANGED <<tagCache, remote, disk, step>>

\* renameSync(downloadedDir, skillDir)
AttemptRename ==
    /\ AttemptAt({"rename"})
    /\ disk' = [disk EXCEPT ![run.w].dirs[run.name] = run.target.entry]
    /\ run' = [run EXCEPT !.pc = "marker", !.target.entry = NoDir]
    /\ UNCHANGED <<tagCache, remote, step>>

\* writeFileSync(marker, cleanVersion), then the action is pushed
AttemptMarker ==
    /\ AttemptAt({"marker"})
    /\ disk' = [disk EXCEPT ![run.w].dirs[run.name].marker = MarkerText(run.version)]
    /\ run' = [run EXCEPT !.pc = "finally",
                          !.actions = <<Action(run.name,
                                               IF Truthy(run.latest) THEN "updated"
                                               ELSE "installed",
                                               run.version, run.latest, "none")>>]
    /\ UNCHANGED <<tagCache, remote, step>>

\* a statement of the swap throws: the catch block
AttemptThrow ==
    /\ AttemptAt({"removing", "mkdir", "rename", "marker"})
    /\ run' = AttemptFailed(run.pc)
    /\ UNCHANGED <<tagCache, remote, disk, step>>

\* finally { if (existsSync(tmpDir)) rmSync(tmpDir, ...) }
AttemptFinally ==
    /\ AttemptAt({"finally"})
    /\ run' = [run EXCEPT !.pc = "done",
                          !.target = IF TmpAfterFinally(run.target.exists)
                                     THEN run.target ELSE NoTarget]
    /\ UNCHANGED <<tagCache, remote, disk, step>>

\* the process is interrupted where it stands
AttemptInterrupted ==
    /\ AttemptAt({"download", "extracting", "check", "rm", "removing", "mkdir",
                  "rename", "marker", "finally"})
    /\ run' = [run EXCEPT !.pc = "killed"]
    /\ UNCHANGED <<tagCache, remote, disk, step>>

AttemptNext ==
    \/ \E w \in Workbenches, primName \in Prims : AttemptBegin(w, primName)
    \/ AttemptExtracting
    \/ \E outcome \in DownloadOutcomes : AttemptDownload(outcome)
    \/ AttemptCheck
    \/ AttemptRmBegin
    \/ AttemptRmEnd
    \/ AttemptMkdir
    \/ AttemptRename
    \/ AttemptMarker
    \/ AttemptThrow
    \/ AttemptFinally
    \/ AttemptInterrupted

AttemptSpec == Init /\ [][AttemptNext]_vars

(***************************************************************************)
(* The comparator on its own: compareSemver applied to version strings     *)
(* written from number triples, with and without trailing text, and to     *)
(* strings that are no versions                                            *)
(***************************************************************************)
SegValues == {0, 2, MaxSegment}

Triples == [1..3 -> SegValues]

Suffixes == {<<>>, <<"-", "b">>}

\* strings that are not M.m.p: empty, too short, too long, not numeric
OddStrings ==
    {<<>>, <<"2">>, <<"2", ".", "0">>, <<"2", ".", "0", ".", "0", ".", "1">>,
     <<"v", "2", ".", "0", ".", "0">>, <<"a", ".", "b">>, <<".", ".">>, <<" ", "2">>}

\* `${n}`: the decimal digits of a natural number
RECURSIVE ToDecimal(_)
ToDecimal(n) ==
    IF n < 10 THEN <<Digits[n + 1]>>
    ELSE ToDecimal(n \div 10) \o <<Digits[(n % 10) + 1]>>

\* `${M}.${m}.${p}`
VersionText(t) ==
    ToDecimal(t[1]) \o <<".">> \o ToDecimal(t[2]) \o <<".">> \o ToDecimal(t[3])

\* the five comparisons of three strings: (a,a) (a,b) (b,a) (b,c) (a,c)
Comparisons(a, b, c) ==
    [aa |-> compareSemver(a, a), ab |-> compareSemver(a, b),
     ba |-> compareSemver(b, a), bc |-> compareSemver(b, c),
     ac |-> compareSemver(a, c)]

\* one application of the function to each choice of arguments
CompareVersions(ta, sa, tb, tc) ==
    /\ run.op = "none"
    /\ run' = Record([op |-> "compareSemver",
                      args |-> <<VersionText(ta) \o sa, VersionText(tb),
                                 VersionText(tc)>>,
                      triples |-> <<ta, tb, tc>>, suffixes |-> <<sa, <<>>, <<>>>>,
                      cmp |-> Comparisons(VersionText(ta) \o sa, VersionText(tb),
                                          VersionText(tc))])
    /\ UNCHANGED <<tagCache, remote, disk, step>>

CompareStrings(a, b, c) ==
    /\ run.op = "none"
    /\ run' = Record([op |-> "compareSemver", args |-> <<a, b, c>>,
                      cmp |-> Comparisons(a, b, c)])
    /\ UNCHANGED <<tagCache, remote, disk, step>>

CompareNext ==
    \/ /\ run.op = "none"
       /\ \E ta, tb, tc \in Triples, sa \in Suffixes :
             CompareVersions(ta, sa, tb, tc)
    \/ /\ run.op = "none"
       /\ \E a, b, c \in OddStrings : CompareStrings(a, b, c)

CompareInit == RegistryInit /\ remote = <<>>

CompareSpec == CompareInit /\ [][CompareNext]_vars

(***************************************************************************)
(* The structural validator (lib/validate.js).  Two versions of            *)
(* validateWorkbench are in the repository: the one that checks            *)
(* plugin.json itself (validateWorkbenchOwnChecks below) and the one that  *)
(* hands the base checks of plugin.json to `claude plugin validate`        *)
(* (validateWorkbench below), which validateMarketplace and the validate   *)
(* command call.  A workbench directory is described by what the           *)
(* validator reads in it:                                                  *)
(*   plugin : .claude-plugin/plugin.json (absent, not JSON, or its fields) *)
(*   skills : the skills/ directory and its subdirectories                 *)
(*   hooks  : hooks/hooks.json (absent, not JSON, or its hook entries)     *)
(* An issue is [check, at]: the message without the paths and the thing    *)
(* it is about.                                                            *)
(***************************************************************************)
\* the mcpServers value of plugin.json:
\*   undefined    no mcpServers
\*   servers      an object whose entries have command or url
\*   serversBad   an object with an entry that has neither
\*   array        an array
\*   missingFile  a string path to no file
\*   malformedFile, noKeyFile, file, fileBad
\*                a string path to a file that is not JSON, that has no
\*                mcpServers object, whose entries are right, or that has
\*                an entry with neither command nor url
McpKinds ==
    {"undefined", "servers", "serversBad", "array", "missingFile", "malformedFile",
     "noKeyFile", "file", "fileBad"}

NoPlugin == [exists |-> FALSE, json |-> FALSE, name |-> FALSE, mcp |-> "undefined"]

MalformedPlugin == [exists |-> TRUE, json |-> FALSE, name |-> FALSE, mcp |-> "undefined"]

PluginFiles ==
    {NoPlugin, MalformedPlugin}
    \cup {[exists |-> TRUE, json |-> TRUE, name |-> n, mcp |-> m] :
             n \in BOOLEAN, m \in McpKinds}

\* a subdirectory of skills/:
\*   none           no such subdirectory
\*   noSkillMd      without SKILL.md
\*   noFrontmatter  SKILL.md does not start with ---
\*   unclosed       no second ---
\*   noName         the frontmatter has no name:
\*   ok             name: and description: are there
SkillNames == <<"s1", "s2">>

SkillKinds == {"none", "noSkillMd", "noFrontmatter", "unclosed", "noName", "ok"}

NoSkills == [exists |-> FALSE, dirs |-> [i \in 1..Len(SkillNames) |-> "none"]]

SkillsDirs ==
    {NoSkills}
    \cup {[exists |-> TRUE, dirs |-> <<a, b>>] :
             a \in SkillKinds, b \in {"none", "noSkillMd"}}

\* the command of a hook entry:
\*   none           no command (or an empty one)
\*   missingScript  its first word is a path to no file
\*   script         its first word is a path to a file
\*   bare           its first word is no path
\*   notString      a value that is no string (an array of words, a number)
CommandKinds == {"none", "missingScript", "script", "bare", "notString"}

Hook(command, rationale) == [command |-> command, rationale |-> rationale]

NoHooks == [exists |-> FALSE, json |-> FALSE, entries |-> <<>>]

MalformedHooks == [exists |-> TRUE, json |-> FALSE, entries |-> <<>>]

\* the hook entries of hooks.json in the order Object.values(..).flat() and
\* the hooks lists give them: none, one or two
HooksFiles ==
    {NoHooks, MalformedHooks, [exists |-> TRUE, json |-> TRUE, entries |-> <<>>]}
    \cup {[exists |-> TRUE, json |-> TRUE, entries |-> <<Hook(c, r)>>] :
             c \in CommandKinds, r \in BOOLEAN}
    \cup {[exists |-> TRUE, json |-> TRUE, entries |-> <<Hook(c, r), h>>] :
             c \in CommandKinds, r \in BOOLEAN,
             h \in {Hook("script", FALSE), Hook("missingScript", TRUE)}}

WorkbenchDir(plugin, skills, hooks) ==
    [plugin |-> plugin, skills |-> skills, hooks |-> hooks]

\* what isClaudeAvailable and delegateToClaude can give
ClaudeOutcomes == {"unavailable", "passed", "failed"}

\* claude plugin validate does not pass a plugin.json that does not parse
\* ("plugin.json parse errors are caught by Claude's base validation")
ClaudeCanGive(claude, dir) == claude = "passed" => (dir.plugin.exists => dir.plugin.json)

Issue(check, at) == [check |-> check, at |-> at]

\* the lists a validateWorkbench call fills
NoIssues == [errors |-> <<>>, warnings |-> <<>>]

Error(st, check, at) == [st EXCEPT !.errors = Append(@, Issue(check, at))]

Warning(st, check, at) == [st EXCEPT !.warnings = Append(@, Issue(check, at))]

\* validateMcpServerEntries, for servers with or without an entry that has
\* neither command nor url
validateMcpServerEntries(st, bad, at) ==
    IF bad THEN Error(st, "mcpServer must have either command or url", at) ELSE st

\* the mcpServers value is a string path
McpFile(mcp) == mcp \in {"missingFile", "malformedFile", "noKeyFile", "file", "fileBad"}

\* the checks of the file a string mcpServers names, up to its entries
CheckMcpFile(st, mcp) ==
    IF mcp = "missingFile" THEN Error(st, "mcpServers references non-existent file", "plugin")
    ELSE IF mcp = "malformedFile" THEN Error(st, "mcp file is not valid JSON", "plugin")
    ELSE IF mcp = "noKeyFile" THEN Error(st, "mcp file must contain an mcpServers object", "plugin")
    ELSE st

\* step 1, 2 and 7 of the version that checks plugin.json itself, for a
\* descriptor that declares a description and no hooks of its own
CheckPluginOwn(st, plugin) ==
    IF ~plugin.exists THEN st
    ELSE IF ~plugin.json THEN Error(st, "plugin.json is not valid JSON", "plugin")
    ELSE LET named(s) ==
                 IF plugin.mcp = "undefined" THEN s
                 ELSE IF McpFile(plugin.mcp)
                 THEN validateMcpServerEntries(CheckMcpFile(s, plugin.mcp),
                                               plugin.mcp = "fileBad", "mcp file")
                 ELSE IF plugin.mcp = "array"
                 THEN Error(s, "mcpServers must be an object or a string path", "plugin")
                 ELSE validateMcpServerEntries(s, plugin.mcp = "serversBad", "plugin.json")
         IN  named(IF plugin.name THEN st
                   ELSE Error(st, "plugin.json missing name field", "plugin"))

\* step 0 of the version that delegates to claude
CheckClaude(st, claude) ==
    IF claude = "unavailable"
    THEN Warning(st, "claude CLI not available, skipping base plugin validation", "plugin")
    ELSE IF claude = "failed" THEN Error(st, "claude plugin validate failed", "plugin")
    ELSE st

\* the .mcp.json file reference check of the version that delegates: the
\* catch of a plugin.json that does not parse is empty
CheckPluginDelegated(st, plugin) ==
    IF ~plugin.exists \/ ~plugin.json THEN st
    ELSE IF McpFile(plugin.mcp) THEN CheckMcpFile(st, plugin.mcp)
    ELSE st

\* the body of the loop over the entries of skills/, for documents
\* without a ../ path
CheckSkill(st, kind, name) ==
    IF kind = "none" THEN st
    ELSE IF kind = "noSkillMd" THEN Error(st, "missing SKILL.md", name)
    ELSE IF kind = "noFrontmatter" THEN Error(st, "missing frontmatter", name)
    ELSE IF kind = "unclosed" THEN Error(st, "unclosed frontmatter", name)
    ELSE IF kind = "noName" THEN Error(st, "frontmatter missing name", name)
    ELSE st

RECURSIVE CheckSkillsFrom(_, _, _)
CheckSkillsFrom(st, skills, i) ==
    IF i > Len(SkillNames) THEN st
    ELSE CheckSkillsFrom(CheckSkill(st, skills.dirs[i], SkillNames[i]), skills, i + 1)

CheckSkills(st, skills) == IF skills.exists THEN CheckSkillsFrom(st, skills, 1) ELSE st

\* the name of the i-th hook entry in an issue
HookAt(i) == IF i = 1 THEN "hook 1" ELSE "hook 2"

\* if (!h.command) continue
SkipsWithoutCommand(h) == h.command = "none"

\* the loop over the hook entries, inside the try: an entry whose command
\* is no string makes h.command.replace throw, and the catch reports the
\* file as not valid JSON and ends the loop
RECURSIVE CheckHooksFrom(_, _, _)
CheckHooksFrom(st, entries, i) ==
    IF i > Len(entries) THEN st
    ELSE LET h == entries[i]
             script(s) == IF h.command = "missingScript"
                          THEN Error(s, "hook command references non-existent script",
                                     HookAt(i))
                          ELSE s
             rationale(s) == IF ~h.rationale
                             THEN Warning(s, "hook missing rationale field", HookAt(i))
                             ELSE s
         IN  IF SkipsWithoutCommand(h) THEN CheckHooksFrom(st, entries, i + 1)
             ELSE IF h.command = "notString"
             THEN Error(st, "hooks/hooks.json is not valid JSON", "hooks")
             ELSE CheckHooksFrom(rationale(script(st)), entries, i + 1)

CheckHooks(st, hooks) ==
    IF ~hooks.exists THEN st
    ELSE IF ~hooks.json THEN Error(st, "hooks/hooks.json is not valid JSON", "hooks")
    ELSE CheckHooksFrom(st, hooks.entries, 1)

\* src/lib/validate.js, the version with its own plugin.json checks
validateWorkbenchOwnChecks(dir) ==
    CheckHooks(CheckSkills(CheckPluginOwn(NoIssues, dir.plugin), dir.skills), dir.hooks)

\* lib/validate.js, the version that delegates the base checks
validateWorkbench(dir, claude) ==
    CheckHooks(CheckSkills(CheckPluginDelegated(CheckClaude(NoIssues, claude), dir.plugin),
                           dir.skills),
               dir.hooks)

\* the file-system and process calls validateWorkbench makes on a workbench
\* directory, as <<function, file>>; existsSync of a file comes before any
\* read of it
PluginCalls(plugin) ==
    {<<"existsSync", "plugin.json">>}
    \cup (IF plugin.exists THEN {<<"readFileSync", "plugin.json">>} ELSE {})
    \cup (IF plugin.exists /\ plugin.json /\ McpFile(plugin.mcp)
          THEN {<<"existsSync", "mcp file">>} ELSE {})
    \cup (IF plugin.exists /\ plugin.json /\ McpFile(plugin.mcp)
             /\ plugin.mcp # "missingFile"
          THEN {<<"readFileSync", "mcp file">>} ELSE {})

SkillCalls(skills) ==
    {<<"existsSync", "skills">>}
    \cup (IF skills.exists THEN {<<"readdirSync", "skills">>} ELSE {})
    \cup {<<"existsSync", SkillNames[i]>> :
             i \in {j \in 1..Len(SkillNames) : skills.exists /\ skills.dirs[j] # "none"}}
    \cup {<<"readFileSync", SkillNames[i]>> :
             i \in {j \in 1..Len(SkillNames) :
                      skills.exists /\ skills.dirs[j] \notin {"none", "noSkillMd"}}}

\* the hook entries the loop reaches: those before the first one that
\* makes it throw
Reached(entries) ==
    {i \in 1..Len(entries) : \A j \in 1..(i - 1) : entries[j].command # "notString"}

HookCalls(hooks) ==
    {<<"existsSync", "hooks.json">>}
    \cup (IF hooks.exists THEN {<<"readFileSync", "hooks.json">>} ELSE {})
    \cup (IF \E i \in Reached(hooks.entries) :
                hooks.entries[i].command \in {"missingScript", "script"}
          THEN {<<"existsSync", "hook script">>} ELSE {})

ClaudeCalls(claude) ==
    {<<"execFileSync", "claude --version">>}
    \cup (IF claude # "unavailable" THEN {<<"execFileSync", "claude plugin validate">>}
          ELSE {})

\* a call that leaves a file of its own in the directory it looks at
FsEffectLeavesTrace(call, dir) == [dir EXCEPT !.skills.exists = TRUE]

\* what a call does to the workbench directory: existsSync, readFileSync
\* and readdirSync of node:fs read, and the claude process is run to
\* validate
FsEffect(call, dir) == dir

RECURSIVE DirAfter(_, _)
DirAfter(dir, calls) ==
    IF calls = {} THEN dir
    ELSE LET call == CHOOSE c \in calls : TRUE
         IN  DirAfter(FsEffect(call, dir), calls \ {call})

\* validateMarketplace.  marketplace.json is absent, not JSON, or a list of
\* plugin entries; an entry has no source, a source that does not exist,
\* or a source that is a workbench directory.
GoodDir ==
    WorkbenchDir([exists |-> TRUE, json |-> TRUE, name |-> TRUE, mcp |-> "undefined"],
                 [exists |-> TRUE, dirs |-> <<"ok", "none">>], NoHooks)

BadDir ==
    WorkbenchDir(NoPlugin, [exists |-> TRUE, dirs |-> <<"noSkillMd", "none">>],
                 [exists |-> TRUE, json |-> TRUE,
                  entries |-> <<Hook("missingScript", FALSE)>>])

MalformedDir == WorkbenchDir(MalformedPlugin, NoSkills, MalformedHooks)

EmptyDir == WorkbenchDir(NoPlugin, NoSkills, NoHooks)

Entry(name, source, dir) == [name |-> name, source |-> source, dir |-> dir]

\* source: "none" (no source field), "missing" (resolves to nothing), "dir"
Entries ==
    {Entry("good", "dir", GoodDir), Entry("bad", "dir", BadDir),
     Entry("broken", "dir", MalformedDir),
     Entry("missing", "missing", EmptyDir), Entry("no-source", "none", EmptyDir)}

MaxPlugins == 3

SeqsUpTo(S, n) == UNION {[1..k -> S] : k \in 0..n}

NoManifest == [exists |-> FALSE, json |-> FALSE, plugins |-> <<>>]

Manifests ==
    {NoManifest, [exists |-> TRUE, json |-> FALSE, plugins |-> <<>>]}
    \cup {[exists |-> TRUE, json |-> TRUE, plugins |-> ps] : ps \in SeqsUpTo(Entries, MaxPlugins)}

\* getMarketplace: throws NotFoundError without the file, and the
\* SyntaxError of JSON.parse when it is not JSON
getMarketplace(manifest) ==
    IF ~manifest.exists THEN [err |-> NotFoundError("marketplace_not_found"), plugins |-> <<>>]
    ELSE IF ~manifest.json THEN [err |-> [kind |-> "SyntaxError", code |-> "none"],
                                 plugins |-> <<>>]
    ELSE [err |-> NoErr, plugins |-> manifest.plugins]

\* a cascade that takes every declared source for an existing directory
SourceExistsAlways(plugin) == TRUE

\* existsSync(resolvedSource)
SourceExists(plugin) == plugin.source = "dir"

\* the body of the loop over the plugin entries; st is [errors, workbenches]
RECURSIVE CascadeFrom(_, _, _, _)
CascadeFrom(st, plugins, claude, i) ==
    IF i > Len(plugins) THEN st
    ELSE LET plugin == plugins[i]
             next ==
                 IF plugin.source = "none"
                 THEN [st EXCEPT !.errors = Append(@, Issue("missing source field",
                                                            plugin.name))]
                 ELSE IF ~SourceExists(plugin)
                 THEN [st EXCEPT !.errors = Append(@, Issue("source path does not exist",
                                                            plugin.name))]
                 ELSE [st EXCEPT !.workbenches =
                          Append(@, validateWorkbench(plugin.dir, claude)
                                       @@ [path |-> plugin.name])]
         IN  CascadeFrom(next, plugins, claude, i + 1)

validateMarketplace(manifest, claude) ==
    LET loaded(m) ==
            IF m.err # NoErr
            THEN [errors |-> <<Issue(m.err.kind, "marketplace.json")>>, workbenches |-> <<>>]
            ELSE CascadeFrom([errors |-> IF m.plugins = <<>>
                                         THEN <<Issue("marketplace.json has no plugins listed",
                                                      "marketplace.json")>>
                                         ELSE <<>>,
                              workbenches |-> <<>>],
                             m.plugins, claude, 1)
    IN  loaded(getMarketplace(manifest))

\* the validate command (commands/workbench.js) and the handler of the
\* errors a command action throws (cli.js)
EXIT_CODES == [SUCCESS |-> 0, GENERAL |-> 1, VALIDATION |-> 2, NETWORK |-> 3, NOT_FOUND |-> 4]

\* an error that is no AgondaError
PlainError == [kind |-> "Error", code |-> "none", exitCode |-> 0]

\* the exitCode an AgondaError carries; anything else exits with GENERAL
exitCode(err) ==
    IF err.kind \in {"Network", "NotFound"} THEN err.exitCode ELSE EXIT_CODES.GENERAL

RECURSIVE Total(_, _)
Total(lengths, i) == IF i > Len(lengths) THEN 0 ELSE lengths[i] + Total(lengths, i + 1)

\* an exit code that counts warnings as failures
ValidationExitStrict(totalErrors, totalWarnings) ==
    IF totalErrors + totalWarnings > 0 THEN EXIT_CODES.VALIDATION ELSE EXIT_CODES.SUCCESS

\* process.exit(totalErrors > 0 ? EXIT_CODES.VALIDATION : EXIT_CODES.SUCCESS)
ValidationExit(totalErrors, totalWarnings) ==
    IF totalErrors > 0 THEN EXIT_CODES.VALIDATION ELSE EXIT_CODES.SUCCESS

\* the action of `validate` on the results of validateAll, or on the error
\* it threw
validateCommand(results, thrown) ==
    IF thrown # NoErr THEN exitCode(thrown)
    ELSE ValidationExit(Total([i \in 1..Len(results) |-> Len(results[i].errors)], 1),
                        Total([i \in 1..Len(results) |-> Len(results[i].warnings)], 1))

\* the errors validateAll can throw before it has a result: no repository
\* root (NotFound), a failing remote or companion call (Network), any other
ThrownErrors ==
    {NoErr, NotFoundError("repo_not_found"), NetworkError("network_error"), PlainError}

\* the workbench directories the command scans
ScannedDirs == {GoodDir, BadDir, MalformedDir, EmptyDir,
                WorkbenchDir(NoPlugin, NoSkills,
                             [exists |-> TRUE, json |-> TRUE,
                              entries |-> <<Hook("script", FALSE)>>])}

MaxScanned == 2

ValidateWorkbench(dir, claude) ==
    /\ run.op = "none"
    /\ ClaudeCanGive(claude, dir)
    /\ \E v \in {validateWorkbench(dir, claude)} :
          run' = Record([op |-> "validateWorkbench", dir |-> dir, claude |-> claude,
                         errors |-> v.errors, warnings |-> v.warnings,
                         calls |-> ClaudeCalls(claude) \cup PluginCalls(dir.plugin)
                                      \cup SkillCalls(dir.skills) \cup HookCalls(dir.hooks),
                         dirAfter |-> DirAfter(dir, ClaudeCalls(claude)
                                                       \cup PluginCalls(dir.plugin)
                                                       \cup SkillCalls(dir.skills)
                                                       \cup HookCalls(dir.hooks))])
    /\ UNCHANGED <<tagCache, remote, disk, step>>

ValidateWorkbenchOwnChecks(dir) ==
    /\ run.op = "none"
    /\ \E v \in {validateWorkbenchOwnChecks(dir)} :
          run' = Record([op |-> "validateWorkbenchOwnChecks", dir |-> dir,
                         errors |-> v.errors, warnings |-> v.warnings,
                         calls |-> PluginCalls(dir.plugin) \cup SkillCalls(dir.skills)
                                      \cup HookCalls(dir.hooks),
                         dirAfter |-> DirAfter(dir, PluginCalls(dir.plugin)
                                                       \cup SkillCalls(dir.skills)
                                                       \cup HookCalls(dir.hooks))])
    /\ UNCHANGED <<tagCache, remote, disk, step>>

\* the calls of a cascade on the directory of its i-th entry
CascadeCalls(plugin, claude) ==
    IF plugin.source = "dir"
    THEN ClaudeCalls(claude) \cup PluginCalls(plugin.dir.plugin)
            \cup SkillCalls(plugin.dir.skills) \cup HookCalls(plugin.dir.hooks)
    ELSE {}

ValidateMarketplace(manifest, claude) ==
    /\ run.op = "none"
    /\ \A i \in 1..Len(manifest.plugins) : ClaudeCanGive(claude, manifest.plugins[i].dir)
    /\ \E v \in {validateMarketplace(manifest, claude)} :
          run' = Record([op |-> "validateMarketplace", manifest |-> manifest,
                         claude |-> claude, errors |-> v.errors,
                         workbenches |-> v.workbenches,
                         dirsAfter |-> [i \in 1..Len(manifest.plugins) |->
                                          DirAfter(manifest.plugins[i].dir,
                                                   CascadeCalls(manifest.plugins[i],
                                                                claude))]])
    /\ UNCHANGED <<tagCache, remote, disk, step>>

ValidateCommand(dirs, claude, thrown) ==
    /\ run.op = "none"
    /\ \A i \in 1..Len(dirs) : ClaudeCanGive(claude, dirs[i])
    /\ \E results \in {[i \in 1..Len(dirs) |-> validateWorkbench(dirs[i], claude)]} :
          run' = Record([op |-> "validate", dirs |-> dirs, claude |-> claude,
                         err |-> thrown,
                         workbenches |-> IF thrown = NoErr THEN results ELSE <<>>,
                         dirsAfter |-> [i \in 1..Len(dirs) |->
                                          DirAfter(dirs[i],
                                                   CascadeCalls(Entry("-", "dir", dirs[i]),
                                                                claude))],
                         exit |-> validateCommand(results, thrown)])
    /\ UNCHANGED <<tagCache, remote, disk, step>>

ValidateNext ==
    \/ /\ run.op = "none"
       /\ \E plugin \in PluginFiles, skills \in SkillsDirs, hooks \in HooksFiles,
             claude \in ClaudeOutcomes :
             ValidateWorkbench(WorkbenchDir(plugin, skills, hooks), claude)
    \/ /\ run.op = "none"
       /\ \E plugin \in PluginFiles, skills \in SkillsDirs, hooks \in HooksFiles :
             ValidateWorkbenchOwnChecks(WorkbenchDir(plugin, skills, hooks))
    \/ /\ run.op = "none"
       /\ \E manifest \in Manifests, claude \in ClaudeOutcomes :
             ValidateMarketplace(manifest, claude)
    \/ /\ run.op = "none"
       /\ \E dirs \in SeqsUpTo(ScannedDirs, MaxScanned), claude \in ClaudeOutcomes,
             thrown \in ThrownErrors :
             ValidateCommand(dirs, claude, thrown)

ValidateInit == CompareInit

ValidateSpec == ValidateInit /\ [][ValidateNext]_vars

(***************************************************************************)
(* Enabled plugins and their scope (lib/plugin.js).  A settings file is    *)
(* missing or unparseable, or a JSON object with or without an             *)
(* enabledPlugins object that gives some plugin keys true or false.        *)
(***************************************************************************)
PluginKeys == {"alpha@m", "beta@m"}

\* the three settings files, highest priority first
ScopeOrder == <<"project", "local", "user">>

NoEntries == [k \in PluginKeys |-> "absent"]

\* readJsonSafe gives null
NoSettings == [parsed |-> FALSE, hasEnabled |-> FALSE, enabledPlugins |-> NoEntries]

SettingsFiles ==
    {NoSettings, [parsed |-> TRUE, hasEnabled |-> FALSE, enabledPlugins |-> NoEntries]}
    \cup {[parsed |-> TRUE, hasEnabled |-> TRUE, enabledPlugins |-> e] :
             e \in [PluginKeys -> {"absent", "true", "false"}]}

readEnabledPlugins(file) ==
    IF ~file.parsed \/ ~file.hasEnabled THEN {}
    ELSE {k \in PluginKeys : file.enabledPlugins[k] = "true"}

\* a key the Map does not hold
NotInMap == "-"

Reverse(seq) == [i \in 1..Len(seq) |-> seq[Len(seq) + 1 - i]]

\* for (const scope of scopes) for (const key of enabled) result.set(key, scope.name)
RECURSIVE SetScopes(_, _, _)
SetScopes(result, settings, scopes) ==
    IF scopes = <<>> THEN result
    ELSE SetScopes([k \in PluginKeys |->
                       IF k \in readEnabledPlugins(settings[Head(scopes)])
                       THEN Head(scopes) ELSE result[k]],
                   settings, Tail(scopes))

\* the Map returned: first the scopes in reverse priority order, then the
\* scopes again in priority order
getEnabledPluginsWithScope(settings) ==
    SetScopes(SetScopes([k \in PluginKeys |-> NotInMap], settings, Reverse(ScopeOrder)),
              settings, ScopeOrder)

GetEnabledPluginsWithScope(settings) ==
    /\ run.op = "none"
    /\ run' = Record([op |-> "getEnabledPluginsWithScope", settings |-> settings,
                      scopeOf |-> getEnabledPluginsWithScope(settings)])
    /\ UNCHANGED <<tagCache, remote, disk, step>>

PluginNext ==
    /\ run.op = "none"
    /\ \E settings \in [{ScopeOrder[i] : i \in 1..Len(ScopeOrder)} -> SettingsFiles] :
          GetEnabledPluginsWithScope(settings)

PluginInit == CompareInit

PluginSpec == PluginInit /\ [][PluginNext]_vars

(***************************************************************************)
(* Properties                                                              *)
(***************************************************************************)
IsInstall == run.op = "installPrimitives"

IsUpdate == run.op = "updatePrimitive"

IsCheck == run.op = "checkWorkbenchPrimitives"

AllSkipped == \A i \in 1..Len(run.actions) : run.actions[i].action = "skipped"

MarkersOf(wb) == [p \in Prims |-> wb.dirs[p].marker]

\* the install recorded in run ran right after an install of the same
\* workbench that resolved the same pins
SecondRun ==
    /\ IsInstall
    /\ run.prev.op = "installPrimitives"
    /\ run.prev.w = run.w
    /\ run.prev.pins = run.pins

C2_DryRunPurity ==
    ((IsInstall \/ IsUpdate) /\ run.dryRun)
        => /\ disk = run.before
           /\ run.writes = {}
           /\ run.downloads = 0

\* a dry run with update that reports a primitive it would install
C2_Witness ==
    /\ IsInstall /\ run.dryRun /\ run.update
    /\ run.pins # run.before[run.w].file.primitives
    /\ \E i \in 1..Len(run.actions) : run.actions[i].action = "would_install"
    /\ disk = run.before

\* C3 as stated: whenever installPrimitives records failed for a primitive
\* (download error, no artifact subtree, or any error during the swap), the
\* artifact directory and version marker of that primitive are as before.
C3_FailedLeavesNoPartialState ==
    IsInstall =>
        \A i \in 1..Len(run.actions) :
            run.actions[i].action = "failed"
                => disk[run.w].dirs[run.actions[i].name]
                     = run.before[run.w].dirs[run.actions[i].name]

\* C4 as stated: updatePrimitive(name), not a dry run, leaves the artifact
\* directory and version marker of every other primitive unchanged.
C4_UpdateTouchesOnlyName ==
    (IsUpdate /\ ~run.dryRun)
        => \A w \in Workbenches : \A p \in Prims \ {run.name} :
              disk[w].dirs[p] = run.before[w].dirs[p]

\* the i-th latest-version query of the recorded operation met a failing
\* tag-listing query (each planned failure is met by one query, in order)
QueryFailed(i) == i <= Len(run.plan)

Range(seq) == {seq[i] : i \in 1..Len(seq)}

\* the versions the registry holds for a primitive
Published(primitiveName) == Range(VersionsOf(MapBatch(remote), primitiveName))

Resolvable(i) ==
    ~QueryFailed(i) /\ Published(Keys(run.pins)[i]) # {}

\* C5: for every pin, checkWorkbenchPrimitives reports CURRENT iff a latest
\* version is resolvable and compareSemver(pin without v, latest) >= 0,
\* BEHIND iff one is resolvable and the comparison is negative, and UNKNOWN
\* with latest "unknown" iff none is resolvable; the latest reported is a
\* published version that no published version of the primitive exceeds.
C5_StatusMatchesComparator ==
    IsCheck =>
        \A i \in 1..Len(run.primitives) :
            LET e == run.primitives[i] IN
            /\ e.pinned = StripV(run.pins[e.name])
            /\ (e.status = "UNKNOWN") <=> ~Resolvable(i)
            /\ (e.latest = Unknown) <=> ~Resolvable(i)
            /\ Resolvable(i) =>
                  /\ e.latest \in Published(e.name)
                  /\ \A v \in Published(e.name) : compareSemver(e.latest, v) >= 0
                  /\ (e.status = "CURRENT") <=> (compareSemver(e.pinned, e.latest) >= 0)
                  /\ (e.status = "BEHIND") <=> (compareSemver(e.pinned, e.latest) < 0)

\* one workbench with a pin behind its latest, and a pin equal to its latest
C5_Witness ==
    /\ IsCheck
    /\ Len(run.primitives) = 2
    /\ run.primitives[1].status = "BEHIND"
    /\ run.primitives[2].status = "CURRENT"
    /\ run.primitives[2].pinned = run.primitives[2].latest

\* C6: checkWorkbenchPrimitives returns exactly one entry per pinned
\* primitive, in the order of the pins; a primitive whose latest-version
\* query throws is classified UNKNOWN and the primitives after it are still
\* processed.
C6_FailureIsolation ==
    IsCheck =>
        /\ Len(run.primitives) = Len(Keys(run.pins))
        /\ \A i \in 1..Len(run.primitives) :
              /\ run.primitives[i].name = Keys(run.pins)[i]
              /\ QueryFailed(i) => run.primitives[i].status = "UNKNOWN"

\* the query of the first primitive throws, the second is still classified
C6_Witness ==
    /\ IsCheck
    /\ Len(run.plan) = 1
    /\ Len(run.primitives) = 2
    /\ run.primitives[1].status = "UNKNOWN"
    /\ run.primitives[2].status # "UNKNOWN"

IsDownload == run.op = "downloadPrimitive"

\* the tag listing the recorded download consulted names name/v<version>
Listed == \E i \in 1..Len(tagCache.tags) :
              tagCache.tags[i].name = run.name \o <<"/", "v">> \o run.version

\* C7: downloadPrimitive(name, version, dir) throws a NotFound error with
\* code tag_not_found whenever the tag listing holds no tag named exactly
\* name/v<version>, even if it holds other versions of the primitive; no
\* download is then attempted and the target directory is not created.
C7_DownloadExactness ==
    (IsDownload /\ tagCache.present /\ ~Listed)
        => /\ run.err = [kind |-> "NotFound", code |-> "tag_not_found", exitCode |-> 4]
           /\ run.downloads = 0
           /\ ~run.target.exists

\* version 1.1.0 of a primitive published at 1.0.0 is asked for
C7_Witness ==
    /\ IsDownload /\ tagCache.present /\ ~Listed
    /\ Published(run.name) # {}
    /\ run.err.code = "tag_not_found"

IsQuery ==
    run.op \in {"getAllVersions", "getLatestVersion", "listPrimitives", "downloadPrimitive"}

\* C8 as stated: every failure of the tag-listing query, a 404 response
\* included, surfaces as a Network error, never as a NotFound error.
C8_ListingFailureIsNetwork ==
    (IsQuery /\ run.plan # <<>>) => run.err.kind = "Network"

\* C9: if a page of the paginated tag fetch fails, the fetch aborts with an
\* error and the tag cache stays empty; the cache only ever holds nothing,
\* a seeded listing, or the complete listing of a fetch whose pages all
\* succeeded.
C9_NoPartialCache ==
    /\ tagCache \in {NoCache, Cached(MapBatch(remote))}
                        \cup {Cached(tags) : tags \in SeedListings}
    /\ (IsQuery /\ run.plan # <<>>)
          => /\ run.err.kind \in {"Network", "NotFound"}
             /\ run.err.code # "tag_not_found"
             /\ tagCache = NoCache

\* the second page of a fetch fails after the first page was received
C9_Witness ==
    /\ IsQuery
    /\ run.plan # <<>>
    /\ run.plan[1].page = 2
    /\ run.queries = 2
    /\ Len(remote) >= PerPage
    /\ tagCache = NoCache

\* C10: once the cache is populated, by a fetch or by seedCache, no
\* getAllVersions, getLatestVersion, listPrimitives or downloadPrimitive call
\* issues a tag-listing query or changes the cache; a call made while the
\* cache is empty, in particular the first one after clearCache, does query.
C10_PopulatedOnce ==
    IsQuery =>
        /\ run.cacheBefore.present => (run.queries = 0 /\ tagCache = run.cacheBefore)
        /\ ~run.cacheBefore.present => run.queries > 0
        /\ run.prev.op = "clearCache" => run.queries > 0

\* a query served from the listing an earlier query fetched
C10_Witness ==
    /\ IsQuery
    /\ run.prev.op \in {"getAllVersions", "getLatestVersion", "listPrimitives",
                         "downloadPrimitive"}
    /\ run.cacheBefore = Cached(MapBatch(remote))
    /\ remote # <<>>
    /\ run.queries = 0
    /\ run.err = NoErr

\* the positions of the cached tags that parse with the primitive asked for
Matching(tags, primitiveName) ==
    {i \in 1..Len(tags) : /\ parseTag(tags[i].name).ok
                          /\ parseTag(tags[i].name).primitive = primitiveName}

\* how often a version occurs in a sequence of versions
Occurrences(versions, v) == Cardinality({i \in 1..Len(versions) : versions[i] = v})

\* C11: with a populated cache, getAllVersions(name) returns without error
\* exactly the versions of the cached tags that parseTag accepts with the
\* primitive name, each as often as it is tagged, ordered descending under
\* compareSemver (empty when no tag matches); getLatestVersion(name) returns
\* null when no tag matches and otherwise a version of a matching tag that
\* none of them exceeds.
C11_VersionListing ==
    LET tags == run.cacheBefore.tags
        hits == Matching(tags, run.name)
        vs == run.versions
    IN  /\ (run.op = "getAllVersions" /\ run.cacheBefore.present)
              => /\ run.err = NoErr
                 /\ Len(vs) = Cardinality(hits)
                 /\ \A i \in hits :
                       Occurrences(vs, parseTag(tags[i].name).version)
                         = Cardinality({j \in hits : parseTag(tags[j].name).version
                                                      = parseTag(tags[i].name).version})
                 /\ \A i, j \in 1..Len(vs) : i < j => compareSemver(vs[i], vs[j]) >= 0
        /\ (run.op = "getLatestVersion" /\ run.cacheBefore.present)
              => /\ run.err = NoErr
                 /\ (run.latest = Null) <=> (hits = {})
                 /\ hits # {} =>
                       /\ \E i \in hits : parseTag(tags[i].name).version = run.latest
                       /\ \A i \in hits :
                             compareSemver(run.latest, parseTag(tags[i].name).version) >= 0

\* two versions listed oldest first come back newest first
C11_Witness ==
    /\ run.op = "getAllVersions" /\ run.cacheBefore.present
    /\ Len(run.versions) = 2
    /\ compareSemver(run.versions[1], run.versions[2]) > 0
    /\ \E i, j \in Matching(run.cacheBefore.tags, run.name) :
          /\ i < j
          /\ parseTag(run.cacheBefore.tags[i].name).version = run.versions[2]
          /\ parseTag(run.cacheBefore.tags[j].name).version = run.versions[1]

IsCompare == run.op = "compareSemver"

Sign(n) == IF n > 0 THEN 1 ELSE IF n < 0 THEN 0 - 1 ELSE 0

\* the order of two number triples, major first, then minor, then patch
Lex(t, u) ==
    IF t[1] # u[1] THEN Sign(t[1] - u[1])
    ELSE IF t[2] # u[2] THEN Sign(t[2] - u[2])
    ELSE Sign(t[3] - u[3])

\* C12: compareSemver returns a number for any strings, compare(a,a) = 0,
\* sign(compare(a,b)) = -sign(compare(b,a)), compare(a,b) >= 0 and
\* compare(b,c) >= 0 imply compare(a,c) >= 0, and on versions M.m.p it is
\* the lexicographic order of (major, minor, patch) as numbers.
C12_TotalOrder ==
    IsCompare =>
        /\ \A k \in DOMAIN run.cmp : run.cmp[k] \in Int
        /\ run.cmp.aa = 0
        /\ Sign(run.cmp.ab) = 0 - Sign(run.cmp.ba)
        /\ (run.cmp.ab >= 0 /\ run.cmp.bc >= 0) => run.cmp.ac >= 0
        /\ (run.triples # <<>> /\ run.suffixes = <<<<>>, <<>>, <<>>>>)
              => /\ Sign(run.cmp.ab) = Lex(run.triples[1], run.triples[2])
                 /\ Sign(run.cmp.bc) = Lex(run.triples[2], run.triples[3])
                 /\ Sign(run.cmp.ac) = Lex(run.triples[1], run.triples[3])

\* 2.10.0 against 2.2.10: decided by the minor segment, as numbers
C12_Witness ==
    /\ IsCompare
    /\ run.args[1] = <<"2", ".", "1", "0", ".", "0">>
    /\ run.args[2] = <<"2", ".", "2", ".", "1", "0">>
    /\ run.cmp.ab > 0
    /\ run.cmp.ba < 0

\* C13 as stated: trailing text after the patch number is ignored, so
\* compareSemver("M.m.p<suffix>", "M.m.p") = 0 and versions compare by
\* their numeric triples whatever the suffix.
C13_SuffixIgnored ==
    (IsCompare /\ run.triples # <<>>)
        => Sign(run.cmp.ab) = Lex(run.triples[1], run.triples[2])

IsCheckAll == run.op = "checkAllPrimitives"

\* the workbench a directory lies in, read off the path
Containing(cwd) == {w \in Workbenches : \E k \in 1..Len(cwd) : SubSeq(cwd, 1, k) = <<w>>}

\* the workbenches in scope: all of them when asked for all or when the
\* directory lies in none, else the one the directory lies in
InScope(all, cwd) == IF all \/ Containing(cwd) = {} THEN Workbenches ELSE Containing(cwd)

PinCount(w) == Cardinality({p \in Prims : disk[w].file.primitives[p] # Null})

RECURSIVE SumOver(_, _)
SumOver(f, S) ==
    IF S = {} THEN 0
    ELSE LET x == CHOOSE y \in S : TRUE IN f[x] + SumOver(f, S \ {x})

\* the entries of the results with a given set of statuses
EntriesWith(statuses) ==
    {<<i, j>> \in (1..Len(run.checked)) \X (1..Cardinality(Prims)) :
        /\ j <= Len(run.checked[i].primitives)
        /\ run.checked[i].primitives[j].status \in statuses}

TmpCreated == {p \in Prims : <<"tmp", p>> \in run.writes}

ActionOf(p) ==
    {run.actions[i].action : i \in {j \in 1..Len(run.actions) : run.actions[j].name = p}}

\* C16: whatever the outcome of an install attempt (installed, updated,
\* failed on a download error, failed for want of an artifact subtree,
\* failed during the swap), its temporary download directory no longer
\* exists when the attempt ends.
C16_TmpCleanup ==
    (IsInstall \/ IsUpdate) => run.tmp = {}

\* an attempt whose download stopped halfway, after tmpDir was created
C16_Witness ==
    /\ IsInstall
    /\ \E p \in TmpCreated :
          /\ ActionOf(p) = {"failed"}
          /\ run.downloads = 1
    /\ run.tmp = {}

\* the marker file of primitive p in the workbench of the recorded
\* installPrimitives, as it was when the run began (Null: no marker file)
MarkerBefore(p) == run.before[run.w].dirs[p].marker

Pinned == {p \in Prims : run.pins[p] # Null}

\* C17 as stated: installPrimitives returns exactly one action per pinned
\* primitive; the action is skipped iff the installed marker equals the
\* target version; otherwise, in a dry run, would_install when there is no
\* marker and would_update when there is one; otherwise exactly one of
\* installed (no prior marker), updated (prior marker, recorded under
\* from), failed.
C17_ActionDetermination ==
    IsInstall =>
        /\ Len(run.actions) = Cardinality(Pinned)
        /\ \A p \in Pinned : Cardinality(ActionOf(p)) = 1
        /\ \A i \in 1..Len(run.actions) :
             LET a == run.actions[i]
                 marker == MarkerBefore(a.name)
                 target == StripV(run.pins[a.name])
                 same == marker # Null /\ Trim(marker) = target
             IN  /\ a.action = "skipped" <=> same
                 /\ (~same /\ run.dryRun) =>
                        a.action = IF marker = Null THEN "would_install"
                                   ELSE "would_update"
                 /\ (~same /\ ~run.dryRun) =>
                        /\ a.action \in {"failed"} \cup
                               (IF marker = Null THEN {"installed"} ELSE {"updated"})
                        /\ a.action = "updated" => a.from = Trim(marker)

\* the pins of the workbench of the recorded installPrimitives before the run
OriginalPins == run.before[run.w].file.primitives

\* the place of a pinned primitive among the keys of the original pins,
\* which is the place of its latest-version query among the queries
KeyIndex(p) == CHOOSE i \in 1..Len(Keys(OriginalPins)) : Keys(OriginalPins)[i] = p

\* the published versions of a primitive that no published version exceeds
Latest(p) ==
    {v \in Published(p) : \A u \in Published(p) : compareSemver(v, u) >= 0}

LatestResolvable(p) == ~QueryFailed(KeyIndex(p)) /\ Published(p) # {}

IsInstallWithUpdate == IsInstall /\ run.update /\ ~run.dryRun

Failed == {p \in Prims : "failed" \in ActionOf(p)}

\* C18: after installPrimitives with update and without dryRun, the
\* primitives of workbench.json are the original pins with every pin whose
\* latest version is resolvable replaced by v<latest> and every other pin
\* kept; the file is written (once there is a pin) whichever attempts failed.
C18_BumpedPinsPersisted ==
    IsInstallWithUpdate =>
        /\ \A p \in Prims :
              LET now == disk[run.w].file.primitives[p]
              IN  IF OriginalPins[p] = Null THEN now = Null
                  ELSE IF LatestResolvable(p)
                  THEN \E v \in Latest(p) : now = <<"v">> \o v
                  ELSE now = OriginalPins[p]
        /\ Keys(OriginalPins) # <<>> => <<"manifest">> \in run.writes

\* a run that bumped one pin, kept a pin it could not resolve, and whose
\* install attempt for the bumped pin failed
C18_Witness ==
    /\ IsInstallWithUpdate
    /\ \E p \in Failed :
          /\ LatestResolvable(p)
          /\ disk[run.w].file.primitives[p] # OriginalPins[p]
    /\ \E q \in Prims :
          /\ OriginalPins[q] # Null
          /\ ~LatestResolvable(q)
          /\ disk[run.w].file.primitives[q] = OriginalPins[q]

\* C19: installPrimitives without update, dry run or not and whatever the
\* downloads do, leaves workbench.json as it was and does not write it.
C19_PlainInstallKeepsManifest ==
    (IsInstall /\ ~run.update) =>
        /\ \A w \in Workbenches : disk[w].file = run.before[w].file
        /\ <<"manifest">> \notin run.writes

\* a plain install that replaced one artifact directory and failed on another
C19_Witness ==
    /\ IsInstall /\ ~run.update /\ ~run.dryRun
    /\ Failed # {}
    /\ \E p \in Prims : ActionOf(p) \cap {"installed", "updated"} # {}
    /\ disk[run.w].dirs # run.before[run.w].dirs
    /\ disk[run.w].file = run.before[run.w].file

\* the workbenches of the list given to the recorded updatePrimitive that
\* pinned its primitive when it began
PinningBefore ==
    {w \in Range(run.wbs) : run.before[w].file.primitives[run.name] # Null}

\* C20: when the registry holds no version of the primitive, updatePrimitive
\* (its tag listing obtained) returns error not_found with an empty results
\* list, and in every case it has written no workbench.json and no artifact
\* directory and has downloaded nothing.
C20_NotFoundShortCircuit ==
    (IsUpdate /\ Published(run.name) = {}) =>
        /\ run.err = NoErr => (run.error = "not_found" /\ run.latest = Null)
        /\ run.results = <<>>
        /\ disk = run.before
        /\ run.writes = {}
        /\ run.downloads = 0

\* an update, not a dry run, of a primitive the registry does not hold,
\* over a workbench that pins it
C20_Witness ==
    /\ IsUpdate /\ ~run.dryRun
    /\ run.err = NoErr
    /\ Published(run.name) = {}
    /\ PinningBefore # {}
    /\ run.error = "not_found"

\* the marker file of primitive p in the workbench of the recorded
\* installPrimitives, as it is now (Null: no marker file)
MarkerNow(p) == disk[run.w].dirs[p].marker

Target(p) == StripV(run.pins[p])

WithAction(kinds) == {p \in Pinned : ActionOf(p) \cap kinds # {}}

\* C28 as stated: at the end of every installPrimitives run that is not a
\* dry run, the marker of each installed, updated or skipped primitive holds
\* exactly the target version, and no failed primitive has the target
\* version in its marker.
C28_MarkerExact ==
    (IsInstall /\ ~run.dryRun) =>
        /\ \A p \in WithAction({"installed", "updated", "skipped"}) :
              MarkerNow(p) = Target(p)
        /\ \A p \in WithAction({"failed"}) : MarkerNow(p) # Target(p)

\* C28 amended: at the end of every installPrimitives run that is not a dry
\* run, the marker of each installed or updated primitive holds exactly the
\* target version, the marker of each skipped primitive is the one that was
\* there and holds the target version once surrounding whitespace is
\* removed, and the marker of a failed primitive is absent or holds another
\* version.
C28_MarkerConsistent ==
    (IsInstall /\ ~run.dryRun) =>
        /\ \A p \in WithAction({"installed", "updated"}) : MarkerNow(p) = Target(p)
        /\ \A p \in WithAction({"skipped"}) :
              /\ MarkerNow(p) = MarkerBefore(p)
              /\ MarkerNow(p) # Null
              /\ Trim(MarkerNow(p)) = Target(p)
        /\ \A p \in WithAction({"failed"}) :
              MarkerNow(p) = Null \/ Trim(MarkerNow(p)) # Target(p)

\* a run that skipped one primitive over a marker ending in a line end,
\* and installed another
C28_Witness ==
    /\ IsInstall /\ ~run.dryRun
    /\ \E p \in WithAction({"skipped"}) : MarkerNow(p) # Target(p)
    /\ \E q \in WithAction({"installed"}) : MarkerNow(q) = Target(q)

\* C29 as stated: after installPrimitives with update, every pin is greater
\* than or equal to its previous value under compareSemver (a pin above the
\* registry's latest version is not lowered), and after updatePrimitive no
\* pin is lower than it was.
C29_PinsNeverLowered ==
    /\ (IsInstall /\ run.update) =>
          \A p \in Pinned :
              /\ compareSemver(StripV(run.pins[p]), StripV(OriginalPins[p])) >= 0
              /\ LET now == disk[run.w].file.primitives[p]
                 IN  compareSemver(StripV(now), StripV(OriginalPins[p])) >= 0
    /\ IsUpdate =>
          \A w \in Workbenches :
              LET was == run.before[w].file.primitives[run.name]
                  now == disk[w].file.primitives[run.name]
              IN  was # Null => compareSemver(StripV(now), StripV(was)) >= 0

IsAttempt == run.op = "attempt"

\* the artifact directory as it was when the attempt began
PreviousDir == run.before[run.w].dirs[run.name]

CompleteNew(dir) ==
    /\ dir.exists
    /\ dir.tag = TagRef(run.name, run.version)
    /\ dir.complete

\* C27 as stated: at every intermediate step of an install attempt, hence
\* wherever the process is interrupted or another process looks, the target
\* artifact directory is the complete previous directory, absent, or the
\* complete newly downloaded directory.
C27_AtomicVisibility ==
    IsAttempt => (SkillDir = PreviousDir \/ SkillDir = NoDir \/ CompleteNew(SkillDir))

IsEnabledQuery == run.op = "getEnabledPluginsWithScope"

\* the places in ScopeOrder of the scopes whose settings enable the key
EnabledAt(k) ==
    {i \in 1..Len(ScopeOrder) : run.settings[ScopeOrder[i]].parsed
                                  /\ run.settings[ScopeOrder[i]].hasEnabled
                                  /\ run.settings[ScopeOrder[i]].enabledPlugins[k] = "true"}

\* C30 as stated: getEnabledPluginsWithScope maps every plugin key enabled
\* in some scope to the highest-priority scope that enables it (project
\* over local, local over user), and holds no other key.
C30_HighestScopeWins ==
    IsEnabledQuery =>
        \A k \in PluginKeys :
            IF EnabledAt(k) = {} THEN run.scopeOf[k] = NotInMap
            ELSE \E i \in EnabledAt(k) :
                     /\ \A j \in EnabledAt(k) : i <= j
                     /\ run.scopeOf[k] = ScopeOrder[i]

IsValidateWorkbench == run.op \in {"validateWorkbench", "validateWorkbenchOwnChecks"}

\* the issues of one validateWorkbench result
IssuesOf(v) == Range(v.errors) \cup Range(v.warnings)

\* the validation the recorded call made, applied to another directory
Revalidate(dir) ==
    IF run.op = "validateWorkbench" THEN validateWorkbench(dir, run.claude)
    ELSE validateWorkbenchOwnChecks(dir)

\* a hook entry no check objects to
CleanHook == Hook("bare", TRUE)

\* the recorded directory with everything but one part made clean: its
\* plugin.json, its i-th skill, or its i-th hook entry
OnlyPlugin == WorkbenchDir(run.dir.plugin, NoSkills, NoHooks)

OnlySkill(i) ==
    WorkbenchDir(NoPlugin,
                 [run.dir.skills EXCEPT
                     !.dirs = [j \in 1..Len(SkillNames) |->
                                  IF j = i THEN run.dir.skills.dirs[i] ELSE "none"]],
                 NoHooks)

OnlyHook(i) ==
    WorkbenchDir(NoPlugin, NoSkills,
                 [run.dir.hooks EXCEPT
                     !.entries = [j \in 1..Len(run.dir.hooks.entries) |->
                                     IF j = i THEN run.dir.hooks.entries[i]
                                     ELSE CleanHook]])

\* C21 as stated: validateWorkbench reports every independent violation in
\* one call: the issues it reports for the plugin descriptor and its
\* mcpServers, for each skill and for each hook entry taken alone are all
\* among the issues it reports for the whole workbench.
C21_NonShortCircuit ==
    IsValidateWorkbench =>
        LET reported == Range(run.errors) \cup Range(run.warnings)
        IN  /\ IssuesOf(Revalidate(OnlyPlugin)) \subseteq reported
            /\ \A i \in 1..Len(SkillNames) :
                  IssuesOf(Revalidate(OnlySkill(i))) \subseteq reported
            /\ \A i \in 1..Len(run.dir.hooks.entries) :
                  IssuesOf(Revalidate(OnlyHook(i))) \subseteq reported

\* C23 as stated: for every hook entry of hooks.json, validateWorkbench
\* warns of a missing rationale iff the entry declares none, whether or not
\* the entry has a command and whether or not its script exists.
C23_RationaleWarning ==
    (IsValidateWorkbench /\ run.dir.hooks.exists /\ run.dir.hooks.json) =>
        \A i \in 1..Len(run.dir.hooks.entries) :
            Issue("hook missing rationale field", HookAt(i)) \in Range(run.warnings)
                <=> ~run.dir.hooks.entries[i].rationale

IsCascade == run.op = "validateMarketplace"

IsValidateCommand == run.op = "validate"

\* the validated directories of the recorded operation and what they are
\* after it
Scanned ==
    IF IsValidateWorkbench THEN <<run.dir>>
    ELSE IF IsCascade
    THEN [i \in 1..Len(run.manifest.plugins) |-> run.manifest.plugins[i].dir]
    ELSE run.dirs

ScannedAfter == IF IsValidateWorkbench THEN <<run.dirAfter>> ELSE run.dirsAfter

EntriesOf(kinds) ==
    {i \in 1..Len(run.manifest.plugins) : run.manifest.plugins[i].source \in kinds}

\* the manifest-level errors about one entry
EntryErrors ==
    {i \in 1..Len(run.errors) :
        run.errors[i].check \in {"missing source field", "source path does not exist"}}

\* the i-th entry among the entries of its kind that come before and with it
Rank(i, S) == Cardinality({j \in S : j <= i})

\* C24: cascade validation partitions the entries of marketplace.json: an
\* entry without source yields one manifest-level error, an entry whose
\* source does not exist yields one manifest-level error naming it, every
\* other entry yields one per-workbench result, in the order of the
\* entries; so the entry errors and the results add up to the entries.
C24_CascadePartition ==
    (IsCascade /\ run.manifest.exists /\ run.manifest.json) =>
        LET plugins == run.manifest.plugins
            bad == EntriesOf({"none", "missing"})
            good == EntriesOf({"dir"})
        IN  /\ Cardinality(EntryErrors) + Len(run.workbenches) = Len(plugins)
            /\ Cardinality(EntryErrors) = Cardinality(bad)
            /\ Len(run.workbenches) = Cardinality(good)
            /\ \A i \in good :
                  run.workbenches[Rank(i, good)].path = plugins[i].name
            /\ \A i \in bad :
                  \E k \in EntryErrors :
                      /\ Rank(k, EntryErrors) = Rank(i, bad)
                      /\ run.errors[k].at = plugins[i].name
                      /\ run.errors[k].check =
                            IF plugins[i].source = "none" THEN "missing source field"
                            ELSE "source path does not exist"

\* a cascade over an entry without source, an entry whose source is
\* missing and a workbench with errors of its own
C24_Witness ==
    /\ IsCascade
    /\ Len(run.manifest.plugins) = 3
    /\ EntriesOf({"none"}) # {} /\ EntriesOf({"missing"}) # {}
    /\ run.manifest.plugins[3].source = "dir"
    /\ Len(run.workbenches) = 1
    /\ run.workbenches[1].errors # <<>>
    /\ Len(run.errors) = 2

\* C25 as stated: a plugin.json, hooks/hooks.json, external mcpServers
\* file or marketplace.json that is not JSON always gives an error entry in
\* the result of validateWorkbench / validateMarketplace.
C25_MalformedJsonReported ==
    /\ IsValidateWorkbench =>
          /\ (run.dir.plugin.exists /\ ~run.dir.plugin.json)
                => \E i \in 1..Len(run.errors) : run.errors[i].at = "plugin"
          /\ (run.dir.plugin.exists /\ run.dir.plugin.json
                 /\ run.dir.plugin.mcp = "malformedFile")
                => Issue("mcp file is not valid JSON", "plugin") \in Range(run.errors)
          /\ (run.dir.hooks.exists /\ ~run.dir.hooks.json)
                => Issue("hooks/hooks.json is not valid JSON", "hooks") \in Range(run.errors)
    /\ IsCascade =>
          /\ (run.manifest.exists /\ ~run.manifest.json) => run.errors # <<>>
          /\ \A i \in EntriesOf({"dir"}) :
                LET dir == run.manifest.plugins[i].dir
                    v == run.workbenches[Rank(i, EntriesOf({"dir"}))]
                IN  (dir.plugin.exists /\ ~dir.plugin.json) => v.errors # <<>>

\* the errors and warnings of the recorded validate command
TotalOf(field) ==
    Cardinality({<<i, j>> \in (1..Len(run.workbenches)) \X (1..8) :
                    j <= Len(run.workbenches[i][field])})

\* C26: the validate command exits with 2 iff the validation errors over
\* all scanned workbenches are more than none and with 0 otherwise,
\* whatever the warnings; an error thrown instead exits with the code of
\* its kind: Network 3, NotFound 4, anything else 1.
C26_ExitCodes ==
    IsValidateCommand =>
        IF run.err = NoErr
        THEN run.exit = (IF TotalOf("errors") > 0 THEN 2 ELSE 0)
        ELSE run.exit = (IF run.err.kind = "Network" THEN 3
                         ELSE IF run.err.kind = "NotFound" THEN 4
                         ELSE 1)

\* a validation that found warnings and no error and exited with 0
C26_Witness ==
    /\ IsValidateCommand
    /\ run.err = NoErr
    /\ Len(run.workbenches) = 2
    /\ TotalOf("warnings") > 0
    /\ TotalOf("errors") = 0
    /\ run.exit = 0

====
